---------------------------- MODULE Spec2Model ----------------------------
(***************************************************************************)
(* A model of three components of the FleetWise edge agent:                *)
(*                                                                         *)
(*  - RetryThread (offboardconnectivity): a worker that drives a retryable *)
(*    with exponential backoff, started and stopped by caller threads.     *)
(*  - CANDataConsumer: applies the active decoder dictionary to each       *)
(*    ingested CAN frame and pushes collected data frames.                 *)
(*  - Custom functions of campaign expressions (developer guide): the      *)
(*    rising-edge math campaign, MULTI_RISING_EDGE_TRIGGER, the counter,   *)
(*    sin and file_size examples.                                          *)
(*                                                                         *)
(* Spec is the RetryThread state machine, SpecLive the same machine with   *)
(* unbounded retries and fairness, SpecCAN the CAN data path fed the       *)
(* frames of the tests, SpecDecode the same path fed frames of every       *)
(* payload length, SpecSwap the path with processMessage taken step by     *)
(* step while dictionary changes arrive.  SpecEdge, SpecMulti, SpecCounter *)
(* and SpecFile are the custom-function machines.                          *)
(***************************************************************************)
EXTENDS Integers, Sequences, FiniteSets, TLC

VARIABLES
    \* ---- RetryThread object
    cfg,               \* [start, max]: fStartBackoffMs, fMaxBackoffMs (uint32 each)
    fShouldStop,       \* std::atomic<bool>
    fCurrentWaitTime,  \* uint32
    mutex,             \* fThreadMutex: "free" or the caller holding it
    thrValid,          \* fThread.isValid()
    wpc,               \* position of the worker thread in doWork
    sleepWoken,        \* fWait was notified while the worker sleeps in wait()
    cpc,               \* position of each caller thread in start()/stop()
    ret,               \* last value returned to each caller
    \* ---- observation of the current run (what the IRetryable saw)
    starts,            \* number of start() calls made
    runs,              \* number of workers created
    results,           \* results returned by attempt() in the current run
    retries,           \* number of RETRY results in the current run
    waits,             \* timeouts passed to fWait.wait() in the current run
    finished,          \* outcomes passed to onFinished() in the current run
    exitBy,            \* "none" | "outcome" | "stop": how doWork left its loop
    stopAt,            \* attempt() calls begun when a stop() set fShouldStop
                       \* while this run's worker ran; -1 if none did
    waitAtCreate       \* fCurrentWaitTime as it stood when this run's worker
                       \* was created

retryVars == << cfg, fShouldStop, fCurrentWaitTime, mutex, thrValid, wpc, sleepWoken,
                cpc, ret, starts, runs, results, retries, waits, finished, exitBy,
                stopAt, waitAtCreate >>

VARIABLES
    \* ---- CAN data path
    dictHandle,        \* the data source's active decoder dictionary, or NullDict
    pushed,            \* collected data frames pushed to the distributor, in order
    ingested,          \* number of frames ingested
    changes,           \* number of dictionary-change notifications delivered
    lastFrame,         \* the frame ingested last, or NoFrame
    dictSeen,          \* the dictionary handle each ingested frame was processed under
    lastChange,        \* the dictionary-change notification delivered last, if any
    \* ---- a frame inside processMessage while dictionary changes arrive
    ppc,               \* position of the ingesting thread in processMessage
    snap,              \* the handle the ingesting thread loaded for the frame
    decoderMethodRef,  \* the handle `decoderMethod` was taken from
    signalIDsRef,      \* the handle `signalIDsToCollect` was taken from
    derefNull,         \* a null handle was dereferenced
    \* ---- the process-wide trace module, as far as processMessage touches it
    sectionsBegun,     \* number of TraceModule::sectionBegin calls made
    \* ---- the consumer's distributor
    mSignalBufferDistributor, \* the handle the consumer was constructed with
    nullPush           \* push was called through a null distributor handle

readerVars == << ppc, snap, decoderMethodRef, signalIDsRef, derefNull >>

canVars == << dictHandle, pushed, ingested, changes, lastFrame, dictSeen, lastChange,
             readerVars, sectionsBegun, mSignalBufferDistributor, nullPush >>

VARIABLES
    \* ---- condition evaluation and custom functions
    calls,             \* the evaluations and callback calls made, with their outcomes
    mLastResult,       \* the engine's stored result of the campaign's last evaluation
    mInvocationStates, \* MULTI_RISING_EDGE_TRIGGER: invocation id -> last condition values
    mCounters,         \* CustomFunctionCounter::mCounters: invocation id -> int
    mFileSize          \* CustomFunctionFileSize::mFileSize

fnVars == << calls, mLastResult, mInvocationStates, mCounters, mFileSize >>

vars == << retryVars, canVars, fnVars >>

-----------------------------------------------------------------------------
(* Bounds of the model *)

MaxRetries == 4
MaxStarts == 2
MaxFrames == 3
MaxChanges == 3
MaxWideFrames == 1
MaxEvaluations == 5
MaxInvocations == 4
MaxCounterCalls == 6
MaxFunctionCalls == 3

Callers == {"t1", "t2"}

-----------------------------------------------------------------------------
(* uint32_t arithmetic.  A value is kept as its two 16-bit halves so that   *)
(* the full 32-bit width is represented.                                    *)

Half == 65536

U32(n) == [hi |-> n \div Half, lo |-> n % Half]

U32Less(a, b) == a.hi < b.hi \/ (a.hi = b.hi /\ a.lo < b.lo)

U32Leq(a, b) == ~U32Less(b, a)

\* std::min(a, b): b if b < a, else a
U32Min(a, b) == IF U32Less(b, a) THEN b ELSE a

\* a * 2 in uint32_t: the carry out of bit 31 is lost
U32Times2(a) ==
    LET lo2 == a.lo * 2
        hi2 == a.hi * 2 + (lo2 \div Half)
    IN  [hi |-> hi2 % Half, lo |-> lo2 % Half]

\* whether the mathematical value 2 * a needs more than 32 bits
Times2Overflows(a) == a.hi * 2 + ((a.lo * 2) \div Half) >= Half

\* min(2 * a, m) over the integers, for uint32 a and m
SaturatingDouble(a, m) == IF Times2Overflows(a) THEN m ELSE U32Min(U32Times2(a), m)

U32Max == [hi |-> Half - 1, lo |-> Half - 1]
U32Top == [hi |-> Half \div 2, lo |-> 0]

\* (startBackoffMs, maxBackoffMs) pairs given to the constructor
Configs ==
    { [start |-> U32(10), max |-> U32(40)],
      [start |-> U32(50), max |-> U32(40)],
      [start |-> U32(0),  max |-> U32(40)],
      [start |-> U32Top,  max |-> U32Max] }

Outcomes == {"SUCCESS", "RETRY", "ABORT"}

-----------------------------------------------------------------------------
(* Thread and Signal, the platform objects RetryThread owns *)

WorkerRunning == wpc \notin {"none", "done"}

\* Thread::isValid
ThreadIsValid == thrValid

\* Thread::isActive
ThreadIsActive == thrValid /\ wpc # "done"

\* Thread::create( doWork, this ): rejected while a worker runs
ThreadCreateOk == ~WorkerRunning

\* Signal::notify: wakes the worker if it sleeps in wait()
SignalNotify == sleepWoken' = (wpc = "wait")

-----------------------------------------------------------------------------
(* RetryThread::RetryThread *)

InitRetry ==
    /\ cfg \in Configs
    /\ fShouldStop = FALSE
    /\ fCurrentWaitTime = U32(0)
    /\ mutex = "free"
    /\ thrValid = FALSE
    /\ wpc = "none"
    /\ sleepWoken = FALSE
    /\ cpc = [c \in Callers |-> "idle"]
    /\ ret = [c \in Callers |-> [op |-> "none", val |-> FALSE, note |-> "none"]]
    /\ starts = 0
    /\ runs = 0
    /\ results = << >>
    /\ retries = 0
    /\ waits = << >>
    /\ finished = << >>
    /\ exitBy = "none"
    /\ stopAt = -1
    /\ waitAtCreate = U32(0)

runObs == << results, retries, waits, finished, exitBy, stopAt >>

\* attempt() calls begun in the current run
AttemptsBegun == Len(results) + (IF wpc = "attempt" THEN 1 ELSE 0)

\* a stop() has set fShouldStop while the current run's worker was running
StopRequested == stopAt >= 0

-----------------------------------------------------------------------------
(* RetryThread::start *)

\* lock_guard( fThreadMutex ); fShouldStop.store( false )
StartLock(c) ==
    /\ cpc[c] = "idle"
    /\ starts < MaxStarts
    /\ mutex = "free"
    /\ mutex' = c
    /\ fShouldStop' = FALSE
    /\ cpc' = [cpc EXCEPT ![c] = "start_locked"]
    /\ starts' = starts + 1
    /\ UNCHANGED << canVars, fnVars, waitAtCreate >>
    /\ UNCHANGED << cfg, fCurrentWaitTime, thrValid, wpc, sleepWoken, ret, runs, runObs >>

\* the value start() returns
StartResult(valid) == valid

\* fThread.create( doWork, this ) succeeded: a new worker runs doWork
StartCreate(c) ==
    /\ cpc[c] = "start_locked"
    /\ ThreadCreateOk
    /\ thrValid' = TRUE
    /\ wpc' = "init"
    /\ sleepWoken' = FALSE
    /\ runs' = runs + 1
    /\ results' = << >>
    /\ retries' = 0
    /\ waits' = << >>
    /\ finished' = << >>
    /\ exitBy' = "none"
    /\ stopAt' = -1
    /\ ret' = [ret EXCEPT ![c] = [op |-> "start", val |-> StartResult(thrValid'),
                                  note |-> "created"]]
    /\ mutex' = "free"
    /\ cpc' = [cpc EXCEPT ![c] = "idle"]
    /\ waitAtCreate' = fCurrentWaitTime
    /\ UNCHANGED << canVars, fnVars >>
    /\ UNCHANGED << cfg, fShouldStop, fCurrentWaitTime, starts >>

\* fThread.create failed; start() still returns fThread.isValid()
StartRejected(c) ==
    /\ cpc[c] = "start_locked"
    /\ ~ThreadCreateOk
    /\ ret' = [ret EXCEPT ![c] = [op |-> "start", val |-> StartResult(ThreadIsValid),
                                  note |-> "rejected"]]
    /\ mutex' = "free"
    /\ cpc' = [cpc EXCEPT ![c] = "idle"]
    /\ UNCHANGED << canVars, fnVars, waitAtCreate >>
    /\ UNCHANGED << cfg, fShouldStop, fCurrentWaitTime, thrValid, wpc, sleepWoken,
                    starts, runs, runObs >>

-----------------------------------------------------------------------------
(* RetryThread::stop *)

\* stop() without its early return: it goes on to the mutex whatever isValid() says
StopCheckNoEarlyReturn(c) ==
    /\ cpc[c] = "idle"
    /\ cpc' = [cpc EXCEPT ![c] = "stop_lock"]
    /\ UNCHANGED << canVars, fnVars, waitAtCreate >>
    /\ UNCHANGED << cfg, fShouldStop, fCurrentWaitTime, mutex, thrValid, wpc, sleepWoken,
                    ret, starts, runs, runObs >>

\* if ( !fThread.isValid() ) return true;   -- read without the mutex
StopCheck(c) ==
    /\ cpc[c] = "idle"
    /\ cpc' = [cpc EXCEPT ![c] = IF ThreadIsValid THEN "stop_lock" ELSE "stop_ret"]
    /\ UNCHANGED << canVars, fnVars, waitAtCreate >>
    /\ UNCHANGED << cfg, fShouldStop, fCurrentWaitTime, mutex, thrValid, wpc, sleepWoken,
                    ret, starts, runs, runObs >>

StopReturnEarly(c) ==
    /\ cpc[c] = "stop_ret"
    /\ ret' = [ret EXCEPT ![c] = [op |-> "stop", val |-> TRUE, note |-> "early"]]
    /\ cpc' = [cpc EXCEPT ![c] = "idle"]
    /\ UNCHANGED << canVars, fnVars, waitAtCreate >>
    /\ UNCHANGED << cfg, fShouldStop, fCurrentWaitTime, mutex, thrValid, wpc, sleepWoken,
                    starts, runs, runObs >>

\* stop() without the store of true to fShouldStop
StopLockNoStore(c) ==
    /\ cpc[c] = "stop_lock"
    /\ mutex = "free"
    /\ mutex' = c
    /\ stopAt' = (IF WorkerRunning /\ stopAt < 0 THEN AttemptsBegun ELSE stopAt)
    /\ cpc' = [cpc EXCEPT ![c] = "stop_notify"]
    /\ UNCHANGED << canVars, fnVars, waitAtCreate >>
    /\ UNCHANGED << cfg, fShouldStop, fCurrentWaitTime, thrValid, wpc, sleepWoken, ret,
                    starts, runs, results, retries, waits, finished, exitBy >>

\* lock_guard( fThreadMutex ); fShouldStop.store( true )
StopLock(c) ==
    /\ cpc[c] = "stop_lock"
    /\ mutex = "free"
    /\ mutex' = c
    /\ fShouldStop' = TRUE
    /\ stopAt' = (IF WorkerRunning /\ stopAt < 0 THEN AttemptsBegun ELSE stopAt)
    /\ cpc' = [cpc EXCEPT ![c] = "stop_notify"]
    /\ UNCHANGED << canVars, fnVars, waitAtCreate >>
    /\ UNCHANGED << cfg, fCurrentWaitTime, thrValid, wpc, sleepWoken, ret, starts, runs,
                    results, retries, waits, finished, exitBy >>

\* fWait.notify()
StopNotify(c) ==
    /\ cpc[c] = "stop_notify"
    /\ SignalNotify
    /\ cpc' = [cpc EXCEPT ![c] = "stop_join"]
    /\ UNCHANGED << canVars, fnVars, waitAtCreate >>
    /\ UNCHANGED << cfg, fShouldStop, fCurrentWaitTime, mutex, thrValid, wpc, ret,
                    starts, runs, runObs >>

\* stop() without the store of false to fShouldStop after the join
StopJoinLeavesFlag(c) ==
    /\ cpc[c] = "stop_join"
    /\ (ThreadIsValid => wpc = "done")
    /\ thrValid' = FALSE
    /\ ret' = [ret EXCEPT ![c] = [op |-> "stop", val |-> ~ThreadIsActive',
                                  note |-> "joined"]]
    /\ mutex' = "free"
    /\ cpc' = [cpc EXCEPT ![c] = "idle"]
    /\ UNCHANGED << canVars, fnVars, waitAtCreate >>
    /\ UNCHANGED << cfg, fShouldStop, fCurrentWaitTime, wpc, sleepWoken, starts, runs,
                    runObs >>

\* fThread.release() joins the worker; then fShouldStop.store( false );
\* return !fThread.isActive()
StopJoin(c) ==
    /\ cpc[c] = "stop_join"
    /\ (ThreadIsValid => wpc = "done")
    /\ thrValid' = FALSE
    /\ fShouldStop' = FALSE
    /\ ret' = [ret EXCEPT ![c] = [op |-> "stop", val |-> ~ThreadIsActive',
                                  note |-> "joined"]]
    /\ mutex' = "free"
    /\ cpc' = [cpc EXCEPT ![c] = "idle"]
    /\ UNCHANGED << canVars, fnVars, waitAtCreate >>
    /\ UNCHANGED << cfg, fCurrentWaitTime, wpc, sleepWoken, starts, runs, runObs >>

-----------------------------------------------------------------------------
(* RetryThread::doWork *)

\* the doubling without the std::min against fMaxBackoffMs
NextBackoffNoClamp(cur, max) == U32Times2(cur)

\* std::min( fCurrentWaitTime * 2, fMaxBackoffMs )
NextBackoff(cur, max) == U32Min(U32Times2(cur), max)

\* doWork without the reset of fCurrentWaitTime at its start
WorkerInitKeepsBackoff ==
    /\ wpc = "init"
    /\ wpc' = "check"
    /\ UNCHANGED << canVars, fnVars, waitAtCreate >>
    /\ UNCHANGED << cfg, fShouldStop, fCurrentWaitTime, mutex, thrValid, sleepWoken, cpc,
                    ret, starts, runs, runObs >>

\* retryThread->fCurrentWaitTime = retryThread->fStartBackoffMs
WorkerInit ==
    /\ wpc = "init"
    /\ fCurrentWaitTime' = cfg.start
    /\ wpc' = "check"
    /\ UNCHANGED << canVars, fnVars, waitAtCreate >>
    /\ UNCHANGED << cfg, fShouldStop, mutex, thrValid, sleepWoken, cpc, ret, starts,
                    runs, runObs >>

\* a loop that does not read fShouldStop
WorkerCheckGoIgnoresStop ==
    /\ wpc = "check"
    /\ wpc' = "attempt"
    /\ UNCHANGED << canVars, fnVars, waitAtCreate >>
    /\ UNCHANGED << cfg, fShouldStop, fCurrentWaitTime, mutex, thrValid, sleepWoken, cpc,
                    ret, starts, runs, runObs >>

\* while ( !fShouldStop ): the flag is clear, attempt() is called
WorkerCheckGo ==
    /\ wpc = "check"
    /\ ~fShouldStop
    /\ wpc' = "attempt"
    /\ UNCHANGED << canVars, fnVars, waitAtCreate >>
    /\ UNCHANGED << cfg, fShouldStop, fCurrentWaitTime, mutex, thrValid, sleepWoken, cpc,
                    ret, starts, runs, runObs >>

\* the loop ending in the ABORT report whether or not the stop flag is set
WorkerCheckStopAnyway ==
    /\ wpc = "check"
    /\ finished' = Append(finished, "ABORT")
    /\ exitBy' = "stop"
    /\ wpc' = "done"
    /\ UNCHANGED << canVars, fnVars, waitAtCreate >>
    /\ UNCHANGED << cfg, fShouldStop, fCurrentWaitTime, mutex, thrValid, sleepWoken, cpc,
                    ret, starts, runs, results, retries, waits, stopAt >>

\* while ( !fShouldStop ): the flag is set; onFinished( ABORT ) and return
WorkerCheckStop ==
    /\ wpc = "check"
    /\ fShouldStop
    /\ finished' = Append(finished, "ABORT")
    /\ exitBy' = "stop"
    /\ wpc' = "done"
    /\ UNCHANGED << canVars, fnVars, waitAtCreate >>
    /\ UNCHANGED << cfg, fShouldStop, fCurrentWaitTime, mutex, thrValid, sleepWoken, cpc,
                    ret, starts, runs, results, retries, waits, stopAt >>

\* break instead of return: onFinished( r ), then the ABORT report after the loop
WorkerAttemptFinalFallsThrough(r) ==
    /\ wpc = "attempt"
    /\ r # "RETRY"
    /\ results' = Append(results, r)
    /\ finished' = finished \o << r, "ABORT" >>
    /\ exitBy' = "outcome"
    /\ wpc' = "done"
    /\ UNCHANGED << canVars, fnVars, waitAtCreate >>
    /\ UNCHANGED << cfg, fShouldStop, fCurrentWaitTime, mutex, thrValid, sleepWoken, cpc,
                    ret, starts, runs, retries, waits, stopAt >>

\* the test result != RETRY replaced by result == SUCCESS: ABORT is retried
WorkerAttemptFinalOnlySuccess(r) ==
    /\ wpc = "attempt"
    /\ r # "RETRY"
    /\ results' = Append(results, r)
    /\ IF r = "SUCCESS"
          THEN /\ finished' = Append(finished, r)
               /\ exitBy' = "outcome"
               /\ wpc' = "done"
               /\ UNCHANGED << waits, sleepWoken >>
          ELSE /\ waits' = Append(waits, fCurrentWaitTime)
               /\ sleepWoken' = FALSE
               /\ wpc' = "wait"
               /\ UNCHANGED << finished, exitBy >>
    /\ UNCHANGED << canVars, fnVars, waitAtCreate >>
    /\ UNCHANGED << cfg, fShouldStop, fCurrentWaitTime, mutex, thrValid, cpc,
                    ret, starts, runs, retries, stopAt >>

\* attempt() returned r != RETRY: onFinished( r ) and return
WorkerAttemptFinal(r) ==
    /\ wpc = "attempt"
    /\ r # "RETRY"
    /\ results' = Append(results, r)
    /\ finished' = Append(finished, r)
    /\ exitBy' = "outcome"
    /\ wpc' = "done"
    /\ UNCHANGED << canVars, fnVars, waitAtCreate >>
    /\ UNCHANGED << cfg, fShouldStop, fCurrentWaitTime, mutex, thrValid, sleepWoken, cpc,
                    ret, starts, runs, retries, waits, stopAt >>

\* attempt() returned RETRY: fWait.wait( fCurrentWaitTime )
WorkerAttemptRetry ==
    /\ wpc = "attempt"
    /\ retries < MaxRetries
    /\ results' = Append(results, "RETRY")
    /\ retries' = retries + 1
    /\ waits' = Append(waits, fCurrentWaitTime)
    /\ sleepWoken' = FALSE
    /\ wpc' = "wait"
    /\ UNCHANGED << canVars, fnVars, waitAtCreate >>
    /\ UNCHANGED << cfg, fShouldStop, fCurrentWaitTime, mutex, thrValid, cpc, ret,
                    starts, runs, finished, exitBy, stopAt >>

\* wait() returned; fCurrentWaitTime = min( fCurrentWaitTime * 2, fMaxBackoffMs )
WorkerBackoff ==
    /\ fCurrentWaitTime' = NextBackoff(fCurrentWaitTime, cfg.max)
    /\ sleepWoken' = FALSE
    /\ wpc' = "check"
    /\ UNCHANGED << canVars, fnVars, waitAtCreate >>
    /\ UNCHANGED << cfg, fShouldStop, mutex, thrValid, cpc, ret, starts, runs, runObs >>

\* the timeout of wait() elapsed
WorkerWaitTimeout ==
    /\ wpc = "wait"
    /\ ~sleepWoken
    /\ WorkerBackoff

\* wait() was woken by notify()
WorkerWaitWoken ==
    /\ wpc = "wait"
    /\ sleepWoken
    /\ WorkerBackoff

\* attempt() returned RETRY once more than the run's record holds: the wait
\* is performed as before, the record of the run is left as it is
WorkerAttemptRetryMore ==
    /\ wpc = "attempt"
    /\ retries = MaxRetries
    /\ sleepWoken' = FALSE
    /\ wpc' = "wait"
    /\ UNCHANGED << canVars, fnVars, waitAtCreate >>
    /\ UNCHANGED << cfg, fShouldStop, fCurrentWaitTime, mutex, thrValid, cpc, ret,
                    starts, runs, runObs >>

-----------------------------------------------------------------------------
(* CAN message ids, payloads and decoder dictionaries *)

\* A 32-bit CAN id as its three flag bits (31..29; 4 is CAN_EFF_FLAG) and its
\* 29 identifier bits.
MsgId(flags, id) == [flags |-> flags, id |-> id]

\* messageId & CAN_EFF_MASK
MaskEff(m) == [flags |-> 0, id |-> m.id]

MAX_CAN_FRAME_BYTE_SIZE == 64

\* stands for the sentinel INVALID_SIGNAL_ID
INVALID_SIGNAL_ID == -1

\* a std::shared_ptr<const CANDecoderDictionary> is a handle: null, or the
\* name of an immutable dictionary
NullDict == "nullptr"

\* an optional record is the empty sequence or the sequence of that record
NoRawFrame == << >>
NoFrame == << >>

Min(a, b) == IF a < b THEN a ELSE b

\* the payload of the test messages: data[i] = i, each a uint8_t
TestPayload(n) == [i \in 1..n |-> (i - 1) % 256]

\* a signal format as SetUp builds them: big-endian, signed, factor 1, offset 0
TestSignal(id, firstBit, sizeInBits) ==
    [ mSignalID |-> id, mIsBigEndian |-> TRUE, mIsSigned |-> TRUE,
      mFirstBitPosition |-> firstBit, mSizeInBits |-> sizeInBits,
      mOffset |-> 0, mFactor |-> 1, mSignalType |-> "DOUBLE" ]

\* a decoder method for message 0x123 with a collect type and a signal list
Method(collectType, valid, signals) ==
    [ collectType |-> collectType,
      format |-> [ mMessageID |-> 291, mSizeInBytes |-> 8, valid |-> valid,
                   mSignals |-> signals ] ]

\* the decoder method of ExternalCANDataSourceTest::SetUp, with a collect type
TestMethod(collectType, valid) ==
    Method(collectType, valid, << TestSignal(1, 24, 30), TestSignal(7, 56, 31) >>)

\* the signals of SetUp, one of another declared type that lies beyond an
\* 8-byte payload, and one that carries the invalid sentinel as its id
OtherSignals ==
    << TestSignal(1, 24, 30), TestSignal(7, 56, 31),
       [TestSignal(9, 100, 8) EXCEPT !.mSignalType = "UINT8"],
       TestSignal(INVALID_SIGNAL_ID, 0, 8) >>

\* the dictionary of ExternalCANDataSourceTest::SetUp
TestDictionary ==
    [ canMessageDecoderMethod |->
          (0 :> (MsgId(0, 291) :> TestMethod("RAW_AND_DECODE", TRUE))),
      signalIDsToCollect |-> {1, 7} ]

\* a second dictionary: other channel, the other collect types, invalid
\* formats, one id that carries the extended-frame flag
OtherDictionary ==
    [ canMessageDecoderMethod |->
          (1 :> (MsgId(0, 291) :> Method("DECODE", TRUE, OtherSignals) @@
                 MsgId(4, 291) :> TestMethod("RAW", TRUE) @@
                 MsgId(0, 1110) :> TestMethod("RAW_AND_DECODE", FALSE) @@
                 MsgId(0, 1929) :> TestMethod("DECODE", FALSE))),
      signalIDsToCollect |-> {7, 9, INVALID_SIGNAL_ID} ]

Dictionaries == { "test", "other" }

\* *dictionary
Deref(handle) ==
    CASE handle = "test" -> TestDictionary
      [] handle = "other" -> OtherDictionary

Protocols == { "RAW_SOCKET", "OBD" }

\* the frames the bus delivers: those of the tests on either channel, the
\* later timestamp on message 0x456 as in testValidDecoderDictionary, the
\* FD payload on message 0x123 as in testCanFDSocketMode
Frames ==
    { f \in [ channelId : {0, 1},
              messageId : { MsgId(0, 291), MsgId(4, 291), MsgId(0, 1110) },
              data : { TestPayload(8), TestPayload(64) },
              timestamp : {0, 1} ] :
          /\ f.timestamp = 1 => f.messageId = MsgId(0, 1110)
          /\ f.data = TestPayload(64) => f.messageId = MsgId(0, 291) }

-----------------------------------------------------------------------------
(* CANDecoder::decodeCANMessage *)

SignalFits(sig, dataLength) ==
    /\ sig.mSizeInBits >= 1
    /\ sig.mFirstBitPosition < dataLength * 8
    /\ sig.mSizeInBits <= dataLength * 8

Wanted(format, signalIDsToCollect) ==
    SelectSeq(format.mSignals, LAMBDA sig : sig.mSignalID \in signalIDsToCollect)

\* bit b (0 the least significant) of byte k (0 the first) of the payload
PayloadBit(data, k, b) == (data[k + 1] \div (2 ^ b)) % 2

\* sum of bit[i] * 2^i for i in 0..n-1
RECURSIVE BitsValue(_, _)
BitsValue(bit, n) ==
    IF n = 0 THEN 0 ELSE BitsValue(bit, n - 1) + bit[n - 1] * (2 ^ (n - 1))

\* two's complement reading of a width-bit raw value
SignExtend(raw, width) ==
    IF raw >= 2 ^ (width - 1) THEN (raw - 2 ^ (width - 1)) - 2 ^ (width - 1) ELSE raw

\* the raw value of a signal whose start bit is the position of its most
\* significant bit, the following bits running down the byte and on into
\* the next byte (a bit beyond the payload reads 0)
RawValueMsbAtStart(data, sig) ==
    LET startByte == sig.mFirstBitPosition \div 8
        startBitInByte == sig.mFirstBitPosition % 8
        w == sig.mSizeInBits
        bit == [i \in 0..(w - 1) |->
                  LET q == (7 - startBitInByte) + ((w - 1) - i)
                      k == startByte + (q \div 8)
                  IN  IF k < Len(data) THEN PayloadBit(data, k, 7 - (q % 8)) ELSE 0]
    IN  BitsValue(bit, w)

\* the raw value of a signal: the start bit is the position of its least
\* significant bit; the more significant bits follow upwards in the byte and
\* then, big-endian, in the bytes before it, little-endian, in the bytes
\* after it
RawValue(data, sig) ==
    LET startByte == sig.mFirstBitPosition \div 8
        startBitInByte == sig.mFirstBitPosition % 8
        w == sig.mSizeInBits
        bit == [i \in 0..(w - 1) |->
                  LET q == startBitInByte + i
                      k == IF sig.mIsBigEndian THEN startByte - (q \div 8)
                                               ELSE startByte + (q \div 8)
                  IN  IF k >= 0 /\ k < Len(data) THEN PayloadBit(data, k, q % 8) ELSE 0]
    IN  BitsValue(bit, w)

\* physical = raw * factor + offset, the raw value sign-extended if signed
PhysicalValue(data, sig) ==
    LET raw == RawValue(data, sig)
    IN  (IF sig.mIsSigned THEN SignExtend(raw, sig.mSizeInBits) ELSE raw)
            * sig.mFactor + sig.mOffset

\* the signals of the format that are to be collected and lie in the payload,
\* in the format's order; ok is false if one of them did not
DecodeCANMessage(data, dataLength, format, signalIDsToCollect) ==
    LET wanted == Wanted(format, signalIDsToCollect)
        fit == SelectSeq(wanted, LAMBDA sig : SignalFits(sig, dataLength))
    IN  [ ok |-> Len(fit) = Len(wanted),
          signals |-> [i \in 1..Len(fit) |->
                          [ mSignalID |-> fit[i].mSignalID,
                            mPhysicalValue |-> PhysicalValue(data, fit[i]),
                            mSignalType |-> fit[i].mSignalType ]] ]

-----------------------------------------------------------------------------
(* CANDataConsumer *)

\* findDecoderMethod leaving the caller's message id as it was on a hit
\* under the mask
FindDecoderMethodNoRewrite(channelId, messageId, decoderMethod) ==
    IF channelId \in DOMAIN decoderMethod
    THEN LET inner == decoderMethod[channelId]
         IN  IF messageId \in DOMAIN inner
             THEN [found |-> TRUE, messageId |-> messageId, method |-> inner[messageId]]
             ELSE IF MaskEff(messageId) \in DOMAIN inner
             THEN [found |-> TRUE, messageId |-> messageId,
                   method |-> inner[MaskEff(messageId)]]
             ELSE [found |-> FALSE, messageId |-> messageId]
    ELSE [found |-> FALSE, messageId |-> messageId]

\* findDecoderMethod trying the masked id before the id as received
FindDecoderMethodMaskFirst(channelId, messageId, decoderMethod) ==
    IF channelId \in DOMAIN decoderMethod
    THEN LET inner == decoderMethod[channelId]
         IN  IF MaskEff(messageId) \in DOMAIN inner
             THEN [found |-> TRUE, messageId |-> MaskEff(messageId),
                   method |-> inner[MaskEff(messageId)]]
             ELSE IF messageId \in DOMAIN inner
             THEN [found |-> TRUE, messageId |-> messageId, method |-> inner[messageId]]
             ELSE [found |-> FALSE, messageId |-> messageId]
    ELSE [found |-> FALSE, messageId |-> messageId]

\* CANDataConsumer::findDecoderMethod: found, the decoder method, and the
\* message id as the function leaves it in its reference parameter
FindDecoderMethod(channelId, messageId, decoderMethod) ==
    IF channelId \in DOMAIN decoderMethod
    THEN LET inner == decoderMethod[channelId]
         IN  IF messageId \in DOMAIN inner
             THEN [found |-> TRUE, messageId |-> messageId, method |-> inner[messageId]]
             ELSE IF MaskEff(messageId) \in DOMAIN inner
             THEN [found |-> TRUE, messageId |-> MaskEff(messageId),
                   method |-> inner[MaskEff(messageId)]]
             ELSE [found |-> FALSE, messageId |-> messageId]
    ELSE [found |-> FALSE, messageId |-> messageId]

\* the raw-frame record of a matched frame
RawFrame(channelId, messageId, data, dataLength, timestamp) ==
    LET size == Min(dataLength % 256, MAX_CAN_FRAME_BYTE_SIZE)
    IN  [ frameID |-> messageId, channelId |-> channelId, receiveTime |-> timestamp,
          size |-> size, data |-> SubSeq(data, 1, size) ]

\* every signal id is taken as valid
IsValidSignalIdAlways(signalID) == TRUE

\* line 129: signal.mSignalID != INVALID_SIGNAL_ID
IsValidSignalId(signalID) == signalID # INVALID_SIGNAL_ID

\* every format is taken as valid
FormatIsValidAlways(format) == TRUE

\* line 118: format.isValid()
FormatIsValid(format) == format.valid

\* a collected signal that takes every decoded signal as a double
FromDecodedSignalAsDouble(signal, timestamp) ==
    [ signalID |-> signal.mSignalID, receiveTime |-> timestamp,
      value |-> signal.mPhysicalValue, type |-> "DOUBLE" ]

\* lines 133-134: CollectedSignal::fromDecodedSignal( signal.mSignalID,
\* timestamp, signal.mPhysicalValue, signal.mSignalType )
FromDecodedSignal(signal, timestamp) ==
    [ signalID |-> signal.mSignalID, receiveTime |-> timestamp,
      value |-> signal.mPhysicalValue, type |-> signal.mSignalType ]

\* the collected signals of a matched frame
CollectedSignals(format, data, dataLength, signalIDsToCollect, timestamp) ==
    IF FormatIsValid(format)
    THEN LET dec == DecodeCANMessage(data, dataLength, format, signalIDsToCollect)
             kept == SelectSeq(dec.signals, LAMBDA sig : IsValidSignalId(sig.mSignalID))
         IN  IF dec.ok
             THEN [i \in 1..Len(kept) |-> FromDecodedSignal(kept[i], timestamp)]
             ELSE << >>
    ELSE << >>

\* a frame for which findDecoderMethod fails pushes an empty collected data
\* frame
PushedIfNotFoundEmptyFrame ==
    << [ mCollectedCanRawFrame |-> NoRawFrame, mCollectedSignals |-> << >> ] >>

\* a frame for which findDecoderMethod fails pushes nothing: the push is
\* inside the if
PushedIfNotFound == << >>

\* the raw frame is collected whatever the collect type
WantsRawAlways(collectType) == TRUE

\* lines 99-100
WantsRaw(collectType) == collectType \in {"RAW", "RAW_AND_DECODE"}

\* lines 115-116
WantsDecode(collectType) == collectType \in {"DECODE", "RAW_AND_DECODE"}

\* the consumer's distributor handle: a distributor, or null
ValidDistributor == "distributor"

NullDistributor == "nullptr"

\* lines 98 and 115: mSignalBufferDistributor.get() != nullptr
DistributorIsSet == mSignalBufferDistributor # NullDistributor

\* a collected data frame is pushed only if it holds a raw frame or signals
PushedFrameUnlessEmpty(collectedDataFrame) ==
    IF collectedDataFrame.mCollectedCanRawFrame = NoRawFrame
          /\ collectedDataFrame.mCollectedSignals = << >>
    THEN << >>
    ELSE << collectedDataFrame >>

\* line 154: the collected data frame of a matched frame is pushed whatever
\* it holds
PushedFrame(collectedDataFrame) == << collectedDataFrame >>

\* CANDataConsumer::processMessage past its null check: the collected data
\* frames pushed to mSignalBufferDistributor (none or one) for a frame, given
\* what its references decoderMethod and signalIDsToCollect refer to
ProcessWith(channelId, decoderMethod, signalIDsToCollect, messageId, data, dataLength, timestamp) ==
    LET res == FindDecoderMethod(channelId, messageId, decoderMethod)
    IN  IF ~res.found
        THEN PushedIfNotFound
        ELSE LET format == res.method.format
                 collectType == res.method.collectType
                 raw == IF DistributorIsSet /\ WantsRaw(collectType)
                        THEN << RawFrame(channelId, res.messageId, data, dataLength,
                                         timestamp) >>
                        ELSE NoRawFrame
                 signals == IF DistributorIsSet /\ WantsDecode(collectType)
                            THEN CollectedSignals(format, data, dataLength,
                                                  signalIDsToCollect, timestamp)
                            ELSE << >>
             IN  PushedFrame([ mCollectedCanRawFrame |-> raw,
                               mCollectedSignals |-> signals ])

\* the same with both references taken from one dictionary (lines 79 and 81)
ProcessUnderDictionary(channelId, dict, messageId, data, dataLength, timestamp) ==
    ProcessWith(channelId, dict.canMessageDecoderMethod, dict.signalIDsToCollect,
                messageId, data, dataLength, timestamp)

\* processMessage without its null check, the null handle reading as the
\* dictionary that was active before
ProcessMessageNoNullCheck(channelId, dictionary, messageId, data, dataLength, timestamp) ==
    ProcessUnderDictionary(channelId,
                           IF dictionary = NullDict THEN TestDictionary
                                                    ELSE Deref(dictionary),
                           messageId, data, dataLength, timestamp)

\* lines 68-78: the calls of TraceModule::sectionBegin one processMessage
\* call makes: none when it returns at the null check, one otherwise
SectionsBegunBy(dictionary) == IF dictionary = NullDict THEN 0 ELSE 1

\* processMessage remembering a drop: once a frame was skipped under a null
\* dictionary, the next frame is skipped as well
ProcessMessageDropSticks(channelId, dictionary, messageId, data, dataLength, timestamp) ==
    IF dictionary = NullDict \/ (dictSeen # << >> /\ dictSeen[Len(dictSeen)] = NullDict)
    THEN << >>
    ELSE ProcessUnderDictionary(channelId, Deref(dictionary), messageId, data,
                                dataLength, timestamp)

\* CANDataConsumer::processMessage: a frame under a null dictionary is skipped
ProcessMessage(channelId, dictionary, messageId, data, dataLength, timestamp) ==
    IF dictionary = NullDict
    THEN << >>
    ELSE ProcessUnderDictionary(channelId, Deref(dictionary), messageId, data,
                                dataLength, timestamp)

\* the distributor's queue taking a new collected data frame ahead of the
\* earlier ones
PushFront(queue, frames) == frames \o queue

\* line 154: mSignalBufferDistributor->push( ... ): the distributor's queue
\* takes the collected data frame (if any) behind the earlier ones
Push(queue, frames) == queue \o frames

\* line 154, mSignalBufferDistributor->push( ... ), for the collected data
\* frames (none or one) of a processMessage call.  Through a null handle the
\* call has no defined outcome: the frame reaches a queue or it does not.
PushThrough(frames) ==
    IF frames = << >>
    THEN pushed' = pushed /\ nullPush' = nullPush
    ELSE IF DistributorIsSet
    THEN pushed' = Push(pushed, frames) /\ nullPush' = nullPush
    ELSE pushed' \in { pushed, Push(pushed, frames) } /\ nullPush' = TRUE

\* CANDataConsumer::CANDataConsumer( signalBufferDistributor ), and no
\* dictionary received yet
InitCANWith(signalBufferDistributor) ==
    /\ mSignalBufferDistributor = signalBufferDistributor
    /\ nullPush = FALSE
    /\ dictHandle = NullDict
    /\ pushed = << >>
    /\ ingested = 0
    /\ changes = 0
    /\ lastFrame = NoFrame
    /\ dictSeen = << >>
    /\ lastChange = << >>
    /\ ppc = "idle"
    /\ snap = NullDict
    /\ decoderMethodRef = NullDict
    /\ signalIDsRef = NullDict
    /\ derefNull = FALSE
    /\ sectionsBegun = 0

\* the consumer as the tests construct it, with a distributor
InitCAN == InitCANWith(ValidDistributor)

\* onChangeOfActiveDictionary taking the dictionary of any protocol
OnChangeOfActiveDictionaryAnyProtocol(d, protocol) ==
    /\ changes < MaxChanges
    /\ changes' = changes + 1
    /\ lastChange' = << [dictionary |-> d, protocol |-> protocol] >>
    /\ dictHandle' = d
    /\ UNCHANGED << pushed, ingested, lastFrame, dictSeen, readerVars, sectionsBegun,
                    mSignalBufferDistributor, nullPush, retryVars, fnVars >>

\* ExternalCANDataSource::onChangeOfActiveDictionary: a dictionary (or null)
\* for RAW_SOCKET replaces the active one; one for another protocol is ignored
OnChangeOfActiveDictionary(d, protocol) ==
    /\ changes < MaxChanges
    /\ changes' = changes + 1
    /\ lastChange' = << [dictionary |-> d, protocol |-> protocol] >>
    /\ dictHandle' = (IF protocol = "RAW_SOCKET" THEN d ELSE dictHandle)
    /\ UNCHANGED << pushed, ingested, lastFrame, dictSeen, readerVars, sectionsBegun,
                    mSignalBufferDistributor, nullPush, retryVars, fnVars >>

\* ExternalCANDataSource::ingestMessage: the frame is given to
\* CANDataConsumer::processMessage with the active dictionary
IngestMessage(f) ==
    /\ ingested < MaxFrames
    /\ ingested' = ingested + 1
    /\ lastFrame' = << f >>
    /\ dictSeen' = Append(dictSeen, dictHandle)
    /\ PushThrough(ProcessMessage(f.channelId, dictHandle, f.messageId, f.data,
                                  Len(f.data), f.timestamp))
    /\ sectionsBegun' = sectionsBegun + SectionsBegunBy(dictHandle)
    /\ UNCHANGED << dictHandle, lastChange, changes, readerVars, mSignalBufferDistributor,
                    retryVars, fnVars >>

NextCAN ==
    \/ \E d \in Dictionaries \cup {NullDict}, p \in Protocols :
          OnChangeOfActiveDictionary(d, p)
    \/ \E f \in Frames : IngestMessage(f)

\* payload lengths from empty to beyond what a uint8_t holds
PayloadLengths == {0, 4, 8, 63, 64, 65, 255, 256, 300}

\* frames of every payload length
WideFrames ==
    [ channelId : {0, 1},
      messageId : { MsgId(0, 291), MsgId(4, 291), MsgId(0, 1110), MsgId(0, 1929) },
      data : { TestPayload(n) : n \in PayloadLengths },
      timestamp : {5} ]

\* ExternalCANDataSource::ingestMessage for a frame of any payload length
IngestWideMessage(f) ==
    /\ ingested < MaxWideFrames
    /\ ingested' = ingested + 1
    /\ lastFrame' = << f >>
    /\ dictSeen' = Append(dictSeen, dictHandle)
    /\ PushThrough(ProcessMessage(f.channelId, dictHandle, f.messageId, f.data,
                                  Len(f.data), f.timestamp))
    /\ sectionsBegun' = sectionsBegun + SectionsBegunBy(dictHandle)
    /\ UNCHANGED << dictHandle, lastChange, changes, readerVars, mSignalBufferDistributor,
                    retryVars, fnVars >>

NextDecode ==
    \/ \E d \in Dictionaries \cup {NullDict}, p \in Protocols :
          OnChangeOfActiveDictionary(d, p)
    \/ \E f \in WideFrames : IngestWideMessage(f)

-----------------------------------------------------------------------------
(* processMessage step by step, for a frame in flight while another thread  *)
(* replaces the data source's dictionary.  The ingesting thread loads the  *)
(* handle once per frame; `dictionary` in processMessage is that loaded    *)
(* handle.                                                                  *)

\* the frames ingested while dictionary changes interleave
SwapFrames == { f \in Frames : f.timestamp = 0 /\ f.data = TestPayload(8) }

\* the parameter `dictionary` of processMessage: the handle loaded at entry
Dictionary == snap

\* ExternalCANDataSource::ingestMessage: load the active handle for the frame
IngestLoad(f) ==
    /\ ppc = "idle"
    /\ ingested < MaxFrames
    /\ ingested' = ingested + 1
    /\ lastFrame' = << f >>
    /\ snap' = dictHandle
    /\ dictSeen' = Append(dictSeen, dictHandle)
    /\ ppc' = "null_check"
    /\ UNCHANGED << dictHandle, lastChange, pushed, changes, decoderMethodRef, signalIDsRef,
                    derefNull, sectionsBegun, mSignalBufferDistributor, nullPush,
                    retryVars, fnVars >>

\* lines 68-78: if ( dictionary == nullptr ) return; else the trace section
\* of the channel begins
ProcessNullCheck ==
    /\ ppc = "null_check"
    /\ ppc' = (IF Dictionary = NullDict THEN "idle" ELSE "read_method")
    /\ sectionsBegun' = sectionsBegun + SectionsBegunBy(Dictionary)
    /\ UNCHANGED << dictHandle, lastChange, pushed, ingested, changes, lastFrame, dictSeen, snap,
                    decoderMethodRef, signalIDsRef, derefNull, mSignalBufferDistributor,
                    nullPush, retryVars, fnVars >>

\* line 79: const auto &decoderMethod = dictionary->canMessageDecoderMethod;
ProcessReadMethod ==
    /\ ppc = "read_method"
    /\ decoderMethodRef' = Dictionary
    /\ derefNull' = (derefNull \/ Dictionary = NullDict)
    /\ ppc' = "read_collect"
    /\ UNCHANGED << dictHandle, lastChange, pushed, ingested, changes, lastFrame, dictSeen, snap,
                    signalIDsRef, sectionsBegun, mSignalBufferDistributor, nullPush,
                    retryVars, fnVars >>

\* line 81 reading the data source's shared handle instead of `dictionary`
ProcessReadCollectShared ==
    /\ ppc = "read_collect"
    /\ signalIDsRef' = dictHandle
    /\ derefNull' = (derefNull \/ dictHandle = NullDict)
    /\ ppc' = "find"
    /\ UNCHANGED << dictHandle, lastChange, pushed, ingested, changes, lastFrame, dictSeen, snap,
                    decoderMethodRef, sectionsBegun, mSignalBufferDistributor, nullPush,
                    retryVars, fnVars >>

\* line 81: const auto &signalIDsToCollect = dictionary->signalIDsToCollect;
ProcessReadCollect ==
    /\ ppc = "read_collect"
    /\ signalIDsRef' = Dictionary
    /\ derefNull' = (derefNull \/ Dictionary = NullDict)
    /\ ppc' = "find"
    /\ UNCHANGED << dictHandle, lastChange, pushed, ingested, changes, lastFrame, dictSeen, snap,
                    decoderMethodRef, sectionsBegun, mSignalBufferDistributor, nullPush,
                    retryVars, fnVars >>

\* lines 89-155: look the frame up, collect, push.  A reference taken through
\* a null handle has no defined outcome: the frame then pushes nothing or any
\* one collected data frame another dictionary would have given.
ProcessFindAndPush ==
    /\ ppc = "find"
    /\ LET f == lastFrame[1]
       IN  IF decoderMethodRef = NullDict \/ signalIDsRef = NullDict
           THEN \E d \in Dictionaries \cup {NullDict} :
                   PushThrough(ProcessMessage(f.channelId, d, f.messageId,
                                              f.data, Len(f.data), f.timestamp))
           ELSE PushThrough(
                    ProcessWith(f.channelId,
                                Deref(decoderMethodRef).canMessageDecoderMethod,
                                Deref(signalIDsRef).signalIDsToCollect,
                                f.messageId, f.data, Len(f.data), f.timestamp))
    /\ ppc' = "idle"
    /\ UNCHANGED << dictHandle, lastChange, ingested, changes, lastFrame, dictSeen, snap,
                    decoderMethodRef, signalIDsRef, derefNull, sectionsBegun,
                    mSignalBufferDistributor, retryVars, fnVars >>

NextSwap ==
    \/ \E d \in Dictionaries \cup {NullDict}, p \in Protocols :
          OnChangeOfActiveDictionary(d, p)
    \/ \E f \in SwapFrames : IngestLoad(f)
    \/ ProcessNullCheck
    \/ ProcessReadMethod
    \/ ProcessReadCollect
    \/ ProcessFindAndPush

-----------------------------------------------------------------------------
(* Condition evaluation and custom functions *)

InitFn ==
    /\ calls = << >>
    /\ mLastResult = FALSE
    /\ mInvocationStates = << >>
    /\ mCounters = << >>
    /\ mFileSize = -1

\* the campaign of the math example: its trigger mode
TriggerModeAlways == "ALWAYS"

TriggerMode == "RISING_EDGE"

\* the samples of the vector signal at an evaluation: none received yet, or
\* components x and y
NoSample == << >>

Samples == { NoSample, << 3, 4 >>, << 60, 80 >>, << 80, 80 >> }

\* custom_function('pow', custom_function('pow', x, 2)
\*                         + custom_function('pow', y, 2), 0.5) > 100
\* over whole-numbered components: the square root of a sum exceeds 100
\* exactly when the sum exceeds 100 * 100
Expression(x, y) == (x * x) + (y * y) > 100 * 100

\* the result of the expression for the samples at hand; a signal without a
\* sample is undefined and makes the result undefined
ExpressionResult(sample) ==
    IF sample = NoSample THEN "undefined"
    ELSE IF Expression(sample[1], sample[2]) THEN "true" ELSE "false"

\* whether the campaign fires for a result, given the stored result of the
\* evaluation before; an undefined result counts as false
Fires(last, result) ==
    IF TriggerMode = "RISING_EDGE"
    THEN result = "true" /\ ~last
    ELSE result = "true"

\* one evaluation of the campaign's condition by the inspection engine
EvaluateCondition(sample) ==
    /\ Len(calls) < MaxEvaluations
    /\ LET result == ExpressionResult(sample)
       IN  /\ calls' = Append(calls, [ sample |-> sample, result |-> result,
                                       fired |-> Fires(mLastResult, result) ])
           /\ mLastResult' = (result = "true")
    /\ UNCHANGED << mInvocationStates, mCounters, mFileSize, retryVars, canVars >>

NextEdge == \E sample \in Samples : EvaluateCondition(sample)

\* CustomFunctionInvocationID: one per call site of a custom function
InvocationIds == {1, 2}

\* no call was made yet
NoResult == << >>

\* MULTI_RISING_EDGE_TRIGGER: the condition names of the example campaign,
\* in argument order
ConditionNames == << "ALARM1", "ALARM2", "ALARM3" >>

\* the values of the three conditions at an invocation
ConditionValues ==
    { << FALSE, FALSE, FALSE >>, << TRUE, FALSE, FALSE >>, << TRUE, FALSE, TRUE >>,
      << FALSE, TRUE, FALSE >> }

\* a condition counts as risen whenever it is true
RisenOrHigh(before, now) == now

\* a rising edge: changing from false to true
Risen(before, now) == ~before /\ now

\* the names of the conditions from the i-th on that have a rising edge, in
\* argument order: the content of the JSON array for Vehicle.MultiRisingEdgeTrigger
RECURSIVE RisenNames(_, _, _)
RisenNames(before, now, i) ==
    IF i > Len(ConditionNames)
    THEN << >>
    ELSE (IF Risen(before[i], now[i]) THEN << ConditionNames[i] >> ELSE << >>)
            \o RisenNames(before, now, i + 1)

\* what an invocation without stored condition values compares with: the
\* guide does not say, so either all conditions count as false before, or
\* none counts as risen
FirstBefore(now) == { [i \in 1..Len(ConditionNames) |-> FALSE], now }

\* MULTI_RISING_EDGE_TRIGGER invoked with the condition values: true when one
\* or more conditions have a rising edge since the invocation before with
\* this invocation id, with the names of those conditions
MultiRisingEdgeTriggerInvoke(id, now) ==
    /\ Len(calls) < MaxInvocations
    /\ \E before \in (IF id \in DOMAIN mInvocationStates
                       THEN { mInvocationStates[id] }
                       ELSE FirstBefore(now)) :
          LET names == RisenNames(before, now, 1)
          IN  calls' = Append(calls, [ op |-> "invoke", id |-> id, args |-> now,
                                       result |-> << names # << >> >>,
                                       names |-> names ])
    /\ mInvocationStates' = (id :> now) @@ mInvocationStates
    /\ UNCHANGED << mLastResult, mCounters, mFileSize, retryVars, canVars >>

\* cleanup of MULTI_RISING_EDGE_TRIGGER: the stored condition values of the
\* invocation id are dropped
MultiRisingEdgeTriggerCleanup(id) ==
    /\ Len(calls) < MaxInvocations
    /\ calls' = Append(calls, [ op |-> "cleanup", id |-> id, args |-> << >>,
                                result |-> NoResult, names |-> << >> ])
    /\ mInvocationStates' = [i \in DOMAIN mInvocationStates \ {id} |-> mInvocationStates[i]]
    /\ UNCHANGED << mLastResult, mCounters, mFileSize, retryVars, canVars >>

\* CustomFunctionCounter::invoke: the counter of the invocation id, created
\* as 0 if the id is new, is returned and then incremented
CounterInvoke(id) ==
    /\ Len(calls) < MaxCounterCalls
    /\ LET counter == IF id \in DOMAIN mCounters THEN mCounters[id] ELSE 0
       IN  /\ calls' = Append(calls, [ op |-> "invoke", id |-> id,
                                       result |-> << [ status |-> "SUCCESSFUL",
                                                      value |-> counter ] >> ])
           /\ mCounters' = (id :> counter + 1) @@ mCounters
    /\ UNCHANGED << mLastResult, mInvocationStates, mFileSize, retryVars, canVars >>

\* cleanup that erases the counters of all invocation ids
CounterCleanupAll(id) ==
    /\ Len(calls) < MaxCounterCalls
    /\ calls' = Append(calls, [ op |-> "cleanup", id |-> id, result |-> NoResult ])
    /\ mCounters' = << >>
    /\ UNCHANGED << mLastResult, mInvocationStates, mFileSize, retryVars, canVars >>

\* CustomFunctionCounter::cleanup: mCounters.erase( invocationId )
CounterCleanup(id) ==
    /\ Len(calls) < MaxCounterCalls
    /\ calls' = Append(calls, [ op |-> "cleanup", id |-> id, result |-> NoResult ])
    /\ mCounters' = [i \in DOMAIN mCounters \ {id} |-> mCounters[i]]
    /\ UNCHANGED << mLastResult, mInvocationStates, mFileSize, retryVars, canVars >>

NextCounter ==
    \/ \E id \in InvocationIds : CounterInvoke(id)
    \/ \E id \in InvocationIds : CounterCleanup(id)

\* InspectionValue: undefined, bool, double or string; a string stands for a
\* file path and is held as the number of that file
Undefined == [ type |-> "UNDEFINED", val |-> 0 ]

BoolValue(b) == [ type |-> "BOOL", val |-> IF b THEN 1 ELSE 0 ]

DoubleValue(x) == [ type |-> "DOUBLE", val |-> x ]

StringValue(path) == [ type |-> "STRING", val |-> path ]

IsUndefined(v) == v.type = "UNDEFINED"

IsBoolOrDouble(v) == v.type \in { "BOOL", "DOUBLE" }

IsString(v) == v.type = "STRING"

\* asDouble(): a bool reads as 0.0 or 1.0
AsDouble(v) == v.val

\* a CustomFunctionInvokeResult: an error code alone, or with a value
ErrorCode(status) == [ status |-> status, value |-> << >> ]

WithValue(status, of, x) == [ status |-> status, value |-> << [ of |-> of, x |-> x ] >> ]

\* the argument lists the functions are invoked with
SinArgs ==
    { << >>, << Undefined >>, << StringValue(1) >>, << BoolValue(TRUE) >>,
      << DoubleValue(0) >>, << DoubleValue(0), DoubleValue(0) >>,
      << Undefined, DoubleValue(0) >> }

\* customFunctionSin; the sine itself is left as sin of its argument
CustomFunctionSin(args) ==
    IF Len(args) # 1 THEN ErrorCode("TYPE_MISMATCH")
    ELSE IF IsUndefined(args[1]) THEN ErrorCode("SUCCESSFUL")
    ELSE IF ~IsBoolOrDouble(args[1]) THEN ErrorCode("TYPE_MISMATCH")
    ELSE WithValue("SUCCESSFUL", "sin", AsDouble(args[1]))

\* the record of a call in `calls`
Call(fn, op, args, result, triggered, collected, signalId, appended) ==
    [ fn |-> fn, op |-> op, args |-> args, result |-> result, triggered |-> triggered,
      collected |-> collected, signalId |-> signalId, appended |-> appended ]

\* `sin` invoked by the expression evaluator
SinInvoke(args) ==
    /\ Len(calls) < MaxFunctionCalls
    /\ calls' = Append(calls, Call("sin", "invoke", args, << CustomFunctionSin(args) >>,
                                   FALSE, {}, INVALID_SIGNAL_ID, << >>))
    /\ UNCHANGED << mLastResult, mInvocationStates, mCounters, mFileSize, retryVars,
                    canVars >>

\* the files on disk, by number: their sizes in bytes as 16-bit halves of a
\* uintmax_t: an empty file, one of 1 KiB, one of 3 GiB
Paths == {1, 2, 3}

FileSizeOf(path) ==
    CASE path = 1 -> [ hi |-> 0, lo |-> 0 ]
      [] path = 2 -> [ hi |-> 0, lo |-> 1024 ]
      [] path = 3 -> [ hi |-> 49152, lo |-> 0 ]

\* static_cast<int>( uintmax_t ): the low 32 bits, read as two's complement
StaticCastInt(size) ==
    LET hi == size.hi % 65536
    IN  IF hi < 32768 THEN (hi * 65536) + size.lo
                      ELSE ((hi - 65536) * 65536) + size.lo

FileSizeArgs ==
    { << >>, << Undefined >>, << DoubleValue(0) >>, << StringValue(1), StringValue(1) >> }
       \cup { << StringValue(path) >> : path \in Paths }

\* whether CustomFunctionFileSize::invoke accepts its arguments
FileSizeArgsOk(args) == ~((Len(args) # 1) \/ ~IsString(args[1]))

\* CustomFunctionFileSize::invoke: the size of the file is stored and
\* returned
FileSizeInvoke(args) ==
    /\ Len(calls) < MaxFunctionCalls
    /\ IF FileSizeArgsOk(args)
       THEN LET size == StaticCastInt(FileSizeOf(args[1].val))
            IN  /\ mFileSize' = size
                /\ calls' = Append(calls,
                       Call("file_size", "invoke", args,
                            << WithValue("SUCCESSFUL", "int", size) >>,
                            FALSE, {}, INVALID_SIGNAL_ID, << >>))
       ELSE /\ mFileSize' = mFileSize
            /\ calls' = Append(calls,
                   Call("file_size", "invoke", args, << ErrorCode("TYPE_MISMATCH") >>,
                        FALSE, {}, INVALID_SIGNAL_ID, << >>))
    /\ UNCHANGED << mLastResult, mInvocationStates, mCounters, retryVars, canVars >>

\* what getNamedSignalID( "Vehicle.FileSize" ) returns: the id the decoder
\* manifest gives the name, or INVALID_SIGNAL_ID when it has none
FileSizeSignalIds == { 42, INVALID_SIGNAL_ID }

\* the sets of signal ids a campaign collects
CollectedSignalIdSets == { {}, {42}, {7} }

\* the signals CustomFunctionFileSize::conditionEnd adds to the triggered
\* collection scheme data
FileSizeAppended(triggered, collectedSignalIds, signalId, timestamp) ==
    IF mFileSize < 0 THEN << >>
    ELSE IF ~triggered THEN << >>
    ELSE IF signalId = INVALID_SIGNAL_ID THEN << >>
    ELSE IF signalId \notin collectedSignalIds THEN << >>
    ELSE << [ signalID |-> signalId, receiveTime |-> timestamp, value |-> mFileSize,
              type |-> "DOUBLE" ] >>

\* conditionEnd that leaves the stored value in place
FileSizeConditionEndKeepsValue(triggered, collectedSignalIds, signalId) ==
    /\ Len(calls) < MaxFunctionCalls
    /\ calls' = Append(calls,
           Call("file_size", "conditionEnd", << >>, NoResult, triggered,
                collectedSignalIds, signalId,
                FileSizeAppended(triggered, collectedSignalIds, signalId, Len(calls))))
    /\ mFileSize' = mFileSize
    /\ UNCHANGED << mLastResult, mInvocationStates, mCounters, retryVars, canVars >>

\* CustomFunctionFileSize::conditionEnd, called after the evaluation of a
\* condition: `triggered` is whether output.triggeredCollectionSchemeData is
\* set, signalId what the lookup of Vehicle.FileSize gives
FileSizeConditionEnd(triggered, collectedSignalIds, signalId) ==
    /\ Len(calls) < MaxFunctionCalls
    /\ calls' = Append(calls,
           Call("file_size", "conditionEnd", << >>, NoResult, triggered,
                collectedSignalIds, signalId,
                FileSizeAppended(triggered, collectedSignalIds, signalId, Len(calls))))
    /\ mFileSize' = -1
    /\ UNCHANGED << mLastResult, mInvocationStates, mCounters, retryVars, canVars >>

NextFile ==
    \/ \E args \in SinArgs : SinInvoke(args)
    \/ \E args \in FileSizeArgs : FileSizeInvoke(args)
    \/ \E triggered \in BOOLEAN, collectedSignalIds \in CollectedSignalIdSets,
          signalId \in FileSizeSignalIds :
          FileSizeConditionEnd(triggered, collectedSignalIds, signalId)

NextMulti ==
    \/ \E id \in InvocationIds, now \in ConditionValues :
          MultiRisingEdgeTriggerInvoke(id, now)
    \/ \E id \in InvocationIds : MultiRisingEdgeTriggerCleanup(id)

-----------------------------------------------------------------------------
(* Specifications *)

WorkerStep ==
    \/ WorkerInit
    \/ WorkerCheckGo
    \/ WorkerCheckStop
    \/ \E r \in Outcomes : WorkerAttemptFinal(r)
    \/ WorkerAttemptRetry
    \/ WorkerWaitTimeout
    \/ WorkerWaitWoken

CallerStep(c) ==
    \/ StartLock(c)
    \/ StartCreate(c)
    \/ StartRejected(c)
    \/ StopCheck(c)
    \/ StopReturnEarly(c)
    \/ StopLock(c)
    \/ StopNotify(c)
    \/ StopJoin(c)

NextRetry == WorkerStep \/ \E c \in Callers : CallerStep(c)

Next == NextRetry

Init == InitRetry /\ InitCAN /\ InitFn

Spec == Init /\ [][Next]_vars

(* The same machine with no bound on the number of RETRY results, under the *)
(* scheduling the platform gives: the worker thread keeps running (attempt() *)
(* returns, the timed wait expires), and a caller inside start() or stop()   *)
(* keeps running.                                                            *)

InitLive == InitRetry /\ InitCAN /\ InitFn /\ cfg = [start |-> U32(10), max |-> U32(40)]

WorkerStepLive == WorkerStep \/ WorkerAttemptRetryMore

NextLive == WorkerStepLive \/ \E c \in Callers : CallerStep(c)

InStart(c) == StartCreate(c) \/ StartRejected(c)

InStop(c) == StopReturnEarly(c) \/ StopLock(c) \/ StopNotify(c) \/ StopJoin(c)

FairLive ==
    /\ WF_vars(WorkerStepLive)
    /\ \A c \in Callers : WF_vars(InStart(c)) /\ WF_vars(InStop(c))

SpecLive == InitLive /\ [][NextLive]_vars /\ FairLive

(* The CAN data path: dictionary changes and frames arrive in any order;    *)
(* the RetryThread is left as constructed.                                  *)

InitCANOnly == InitLive

SpecCAN == InitCANOnly /\ [][NextCAN]_vars

(* The CAN data path with the ingesting thread and the thread delivering    *)
(* dictionary changes running concurrently.                                 *)

(* The CAN data path fed frames of every payload length.                    *)

InitDecode == InitLive

SpecDecode == InitDecode /\ [][NextDecode]_vars

\* The same frames given to a consumer constructed with a distributor or
\* with a null handle.
InitNull ==
    /\ InitRetry
    /\ \E d \in { ValidDistributor, NullDistributor } : InitCANWith(d)
    /\ InitFn
    /\ cfg = [start |-> U32(10), max |-> U32(40)]

SpecNull == InitNull /\ [][NextDecode]_vars

InitSwap == InitLive

SpecSwap == InitSwap /\ [][NextSwap]_vars

\* The rising-edge campaign of the math example, evaluated on a sequence of
\* samples.
InitEdge == InitLive

SpecEdge == InitEdge /\ [][NextEdge]_vars

\* MULTI_RISING_EDGE_TRIGGER invoked and cleaned up under two invocation ids.
InitMulti == InitLive

SpecMulti == InitMulti /\ [][NextMulti]_vars

\* The counter custom function invoked and cleaned up under two invocation
\* ids.
InitCounter == InitLive

SpecCounter == InitCounter /\ [][NextCounter]_vars

\* The sin and file_size custom functions: invocations with argument lists
\* of every shape, and condition-end calls.
InitFile == InitLive

SpecFile == InitFile /\ [][NextFile]_vars

-----------------------------------------------------------------------------
(* Properties of the retry worker *)

Last(s) == s[Len(s)]

NumRetry(s) == Cardinality({i \in 1..Len(s) : s[i] = "RETRY"})

\* C1: in every run onFinished is called exactly once: never twice, not at all
\* while the worker still runs, once when it has exited, whatever stop() calls
\* interleave; results RETRY, RETRY, SUCCESS give the single call SUCCESS.
C1_FinishedExactlyOnce ==
    /\ Len(finished) <= 1
    /\ (WorkerRunning \/ wpc = "none") => finished = << >>
    /\ wpc = "done" => Len(finished) = 1
    /\ results = << "RETRY", "RETRY", "SUCCESS" >> => finished = << "SUCCESS" >>

\* C1 witness: a run RETRY, RETRY, SUCCESS has finished and a later stop()
\* by some caller has joined it.
C1_Witness ==
    /\ results = << "RETRY", "RETRY", "SUCCESS" >>
    /\ finished = << "SUCCESS" >>
    /\ stopAt = -1
    /\ ~thrValid
    /\ \E c \in Callers : ret[c].op = "stop" /\ ret[c].note = "joined"

C2_State ==
    /\ \A i \in 1..Len(results) :
          results[i] # "RETRY" =>
              /\ i = Len(results)
              /\ finished = << results[i] >>
              /\ exitBy = "outcome"
              /\ wpc = "done"
    /\ Len(waits) = NumRetry(results)
    /\ (wpc = "wait" => results # << >> /\ Last(results) = "RETRY")

C2_Step ==
    /\ (wpc = "attempt" /\ results' = Append(results, "RETRY")) =>
          (wpc' = "wait" /\ waits' = Append(waits, fCurrentWaitTime))
    /\ (wpc = "wait" /\ wpc' # "wait") => wpc' = "check"
    /\ (wpc = "check" /\ ~fShouldStop /\ wpc' # "check") => wpc' = "attempt"
    /\ (wpc = "done" /\ runs' = runs) =>
          (results' = results /\ waits' = waits /\ finished' = finished)

\* C2: a non-RETRY result of attempt() is the last result of its run, is the
\* one outcome given to onFinished, and the worker has exited with it (no
\* later attempt, no later wait); a RETRY result is followed by a wait and,
\* if the stop flag is clear, by the next attempt.
C2_NonRetryFinishes == []C2_State /\ [][C2_Step]_vars

\* C2 witness: attempt() returned RETRY then ABORT; onFinished(ABORT), one wait.
C2_Witness ==
    /\ results = << "RETRY", "ABORT" >>
    /\ finished = << "ABORT" >>
    /\ Len(waits) = 1
    /\ wpc = "done"

\* C3 (as claimed): the first wait of a run is start_ms and every later wait
\* is min(2 x previous wait, max_ms), the minimum taken over the integers.
C3_WaitsDoubleUpToMax ==
    /\ Len(waits) >= 1 => waits[1] = cfg.start
    /\ \A i \in 2..Len(waits) : waits[i] = SaturatingDouble(waits[i - 1], cfg.max)

C5_DoublingSaturates ==
    [][(wpc = "wait" /\ wpc' = "check") =>
          /\ fCurrentWaitTime' = SaturatingDouble(fCurrentWaitTime, cfg.max)
          /\ (U32Leq(fCurrentWaitTime, cfg.max) =>
                 U32Leq(fCurrentWaitTime, fCurrentWaitTime'))]_vars

\* C6 (as claimed): once stop() has set the flag on a running worker that had
\* no non-RETRY outcome yet, the worker exits with onFinished(ABORT).
C6_StopAlwaysAborts ==
    (StopRequested /\ wpc = "done") => finished = << "ABORT" >>

C6_State ==
    /\ StopRequested => AttemptsBegun <= stopAt
    /\ (StopRequested /\ wpc = "done") =>
          \/ exitBy = "stop" /\ finished = << "ABORT" >>
          \/ /\ exitBy = "outcome"
             /\ Len(results) = stopAt
             /\ finished = << Last(results) >>
    /\ exitBy = "stop" => (wpc = "done" /\ finished = << "ABORT" >>)

C6_Step ==
    /\ \A c \in Callers :
          (cpc[c] = "stop_notify" /\ cpc'[c] = "stop_join" /\ wpc = "wait") =>
              sleepWoken'
    /\ (wpc = "wait" /\ sleepWoken /\ wpc' # "wait") => wpc' = "check"
    /\ (wpc = "check" /\ fShouldStop /\ wpc' # "check") =>
          (wpc' = "done" /\ finished' = << "ABORT" >>)

\* C6 (amended): once stop() has set the flag on a running worker, no further
\* attempt() is begun; a sleeping worker is woken by the notify; the worker
\* exits with onFinished(ABORT) when it reads the flag, unless the attempt()
\* already begun when the flag was set returns SUCCESS or ABORT, in which case
\* that outcome is the one reported.
C6_StopEndsRun == []C6_State /\ [][C6_Step]_vars

\* C6 witness: stop() set the flag after the worker got its one RETRY; the
\* worker left the wait, read the flag and reported ABORT; stop() joined it.
C6_Witness ==
    /\ StopRequested
    /\ exitBy = "stop"
    /\ results = << "RETRY" >>
    /\ finished = << "ABORT" >>
    /\ \E c \in Callers : ret[c].op = "stop" /\ ret[c].note = "joined" /\ cpc[c] = "idle"

objState == << fShouldStop, fCurrentWaitTime, mutex, thrValid, wpc, sleepWoken, runObs >>

C7_Step ==
    \A c \in Callers :
        /\ (cpc[c] = "idle" /\ ~thrValid /\ cpc'[c] \notin {"idle", "start_locked"}) =>
              (cpc'[c] = "stop_ret" /\ UNCHANGED objState)
        /\ (cpc[c] = "stop_ret" /\ cpc'[c] # "stop_ret") =>
              /\ cpc'[c] = "idle"
              /\ ret'[c] = [op |-> "stop", val |-> TRUE, note |-> "early"]
              /\ UNCHANGED objState
        /\ (cpc[c] = "stop_join" /\ cpc'[c] # "stop_join") =>
              /\ cpc'[c] = "idle"
              /\ ret'[c].val = TRUE
              /\ ~thrValid' /\ ~fShouldStop'

\* C7: a stop() that finds no valid thread (never started, or released by an
\* earlier stop()) returns true and changes nothing of the RetryThread: no
\* onFinished, no attempt, no store to the stop flag; and every stop() that
\* joined leaves the thread invalid, so the next stop() is such a call.
C7_StopIdempotent == [](runs = 0 => ~thrValid) /\ [][C7_Step]_vars

\* C7 witness: one caller's stop() has joined the only run, and another
\* caller's stop() found no valid thread and returned true at once.
C7_Witness ==
    /\ runs = 1
    /\ ~thrValid
    /\ \E c, d \in Callers :
          /\ ret[c] = [op |-> "stop", val |-> TRUE, note |-> "joined"]
          /\ ret[d] = [op |-> "stop", val |-> TRUE, note |-> "early"]

\* C8 (as claimed): a start() made while a worker runs returns false.
C8_StartWhileRunningReturnsFalse ==
    \A c \in Callers : (ret[c].op = "start" /\ ret[c].note = "rejected") => ~ret[c].val

\* C9: stopping completes: every stop() call returns; once stop() has set the
\* flag on a running worker the worker exits; the worker never stays in the
\* backoff wait; and a worker that never exits is one whose attempt() returns
\* RETRY again and again.
C9_StopCompletes ==
    /\ \A c \in Callers :
          (cpc[c] \in {"stop_ret", "stop_lock", "stop_notify", "stop_join"}) ~>
              (cpc[c] = "idle")
    /\ StopRequested ~> (wpc = "done")
    /\ (wpc = "wait") ~> (wpc = "check")
    /\ (<>[]WorkerRunning) => ([]<>(wpc = "wait"))

\* C9 witness: stop() set the flag after the worker had got MaxRetries RETRY
\* results or more; the worker read the flag and exited, and stop() has
\* returned after joining it.
C9_Witness ==
    /\ StopRequested
    /\ retries = MaxRetries
    /\ stopAt = MaxRetries
    /\ wpc = "done"
    /\ exitBy = "stop"
    /\ \E c \in Callers : ret[c].note = "joined" /\ cpc[c] = "idle"

-----------------------------------------------------------------------------
(* Properties of the CAN data path *)

C10_Step ==
    (ingested' = ingested + 1) =>
        LET f == lastFrame'[1] IN
        /\ dictHandle = NullDict =>
              (pushed' = pushed /\ dictHandle' = NullDict)
        /\ (dictHandle = "test" /\ f.channelId = 0 /\ f.messageId.id = 291) =>
              /\ Len(pushed') = Len(pushed) + 1
              /\ SubSeq(pushed', 1, Len(pushed)) = pushed
              /\ LET rec == Last(pushed') IN
                 /\ Len(rec.mCollectedCanRawFrame) = 1
                 /\ rec.mCollectedCanRawFrame[1].frameID = MsgId(0, 291)
                 /\ rec.mCollectedCanRawFrame[1].channelId = 0
                 /\ rec.mCollectedCanRawFrame[1].data = f.data
                 /\ [i \in 1..Len(rec.mCollectedSignals) |->
                        rec.mCollectedSignals[i].signalID] = << 1, 7 >>

\* C10: a frame ingested while the dictionary handle is null (never set, or
\* set to null since the frame before) pushes nothing and changes nothing;
\* whatever was dropped before, a frame of channel 0, id 0x123 ingested under
\* the test dictionary pushes one record with its raw frame and signals 1, 7.
C10_NullDictionaryDrops == [][C10_Step]_vars

\* C10 witness: a frame was processed under the test dictionary, the next was
\* dropped under a null handle, and the third, under the test dictionary
\* again, was processed: two records were pushed.
C10_Witness ==
    /\ dictSeen = << "test", NullDict, "test" >>
    /\ Len(pushed) = 2
    /\ lastFrame[1].channelId = 0 /\ lastFrame[1].messageId = MsgId(4, 291)
    /\ Last(pushed).mCollectedCanRawFrame[1].frameID = MsgId(0, 291)

-----------------------------------------------------------------------------
(* Properties of the CAN data path under concurrent dictionary changes *)

C11_State ==
    /\ ~derefNull
    /\ ppc \in {"read_method", "read_collect", "find"} => snap # NullDict
    /\ ppc \in {"read_collect", "find"} => decoderMethodRef = snap
    /\ ppc = "find" => signalIDsRef = snap

C11_Step ==
    /\ ppc # "idle" => snap' = snap
    /\ (ppc = "idle" /\ ppc' # "idle") => (snap' = dictHandle /\ pushed' = pushed)
    /\ (ppc = "null_check" /\ ppc' = "idle") => (snap = NullDict /\ pushed' = pushed)
    /\ (ppc = "find" /\ ppc' = "idle") =>
          LET f == lastFrame[1]
          IN  pushed' = pushed \o ProcessMessage(f.channelId, snap, f.messageId,
                                                 f.data, Len(f.data), f.timestamp)
    /\ (ppc' = ppc \/ ppc \in {"read_method", "read_collect"}) => pushed' = pushed

\* C11: a frame is processed entirely under the dictionary handle loaded at
\* its entry, whatever dictionary changes (to another dictionary or to null)
\* interleave with processMessage: decoderMethod and signalIDsToCollect are
\* both taken from that handle, what is pushed is what processMessage gives
\* under that handle alone, a frame whose handle is null is skipped, and no
\* null handle is ever dereferenced.
C11_SwapAtomicPerFrame == [](C11_State) /\ [][C11_Step]_vars

\* C11 witness: a frame that entered under the test dictionary has taken both
\* references and is about to be looked up while the data source's handle has
\* meanwhile been replaced by null, after an earlier frame was pushed.
C11_Witness ==
    /\ ppc = "find"
    /\ snap = "test"
    /\ dictHandle = NullDict
    /\ pushed # << >>

-----------------------------------------------------------------------------
(* Properties of the CAN data path, frame by frame *)

\* this step ingests a frame
Ingesting == ingested' = ingested + 1

\* the frame this step ingests
NewFrame == lastFrame'[1]

\* the collected data frames this step pushes
NewPushed == SubSeq(pushed', Len(pushed) + 1, Len(pushed'))

\* the keys of method[channel] of a dictionary
KeysOf(d, channelId) ==
    IF channelId \in DOMAIN Deref(d).canMessageDecoderMethod
    THEN DOMAIN Deref(d).canMessageDecoderMethod[channelId]
    ELSE {}

\* the entry of method[channel] a frame id selects: itself, else its masked
\* form
KeyFor(d, channelId, messageId) ==
    IF messageId \in KeysOf(d, channelId) THEN messageId ELSE MaskEff(messageId)

Matched(d, channelId, messageId) == KeyFor(d, channelId, messageId) \in KeysOf(d, channelId)

MethodFor(d, channelId, messageId) ==
    Deref(d).canMessageDecoderMethod[channelId][KeyFor(d, channelId, messageId)]

\* the ids of a sequence of signal formats or collected signals
FormatIds(signals) == { signals[i].mSignalID : i \in 1..Len(signals) }

CollectedIds(signals) == { signals[i].signalID : i \in 1..Len(signals) }

C12_Step ==
    (/\ Ingesting
     /\ dictHandle # NullDict
     /\ NewFrame.messageId \notin KeysOf(dictHandle, NewFrame.channelId)
     /\ MaskEff(NewFrame.messageId) \in KeysOf(dictHandle, NewFrame.channelId))
    => LET f == NewFrame
           method == MethodFor(dictHandle, f.channelId, f.messageId)
       IN  /\ Len(NewPushed) = 1
           /\ \A i \in 1..Len(NewPushed[1].mCollectedCanRawFrame) :
                  NewPushed[1].mCollectedCanRawFrame[i].frameID = MaskEff(f.messageId)
           /\ Len(NewPushed[1].mCollectedCanRawFrame) = 1
                  <=> method.collectType \in {"RAW", "RAW_AND_DECODE"}
           /\ NewPushed = ProcessMessage(f.channelId, dictHandle, MaskEff(f.messageId),
                                         f.data, Len(f.data), f.timestamp)

\* C12: a frame whose id is not a key of method[channel] while its id masked
\* with 0x1FFFFFFF is, is handled by the masked entry's decoder method: one
\* collected data frame is pushed, its raw-frame record (present as that
\* method's collect type says) carries the masked id, and the whole frame
\* equals the one the same payload gives when sent with the masked id.
C12_ExtendedIdFallback == [][C12_Step]_vars

\* C12 witness: 0x123 with the extended-frame flag, ingested on channel 0
\* under the test dictionary, was pushed with raw frame id 0x123 and the two
\* values of the plain 0x123 frame.
C12_Witness ==
    /\ lastFrame # NoFrame
    /\ lastFrame[1].messageId = MsgId(4, 291)
    /\ lastFrame[1].channelId = 0
    /\ Last(dictSeen) = "test"
    /\ pushed # << >>
    /\ Last(pushed).mCollectedCanRawFrame # NoRawFrame
    /\ Last(pushed).mCollectedCanRawFrame[1].frameID = MsgId(0, 291)
    /\ Len(Last(pushed).mCollectedSignals) = 2
    /\ Last(pushed).mCollectedSignals[1].value = 66051
    /\ Last(pushed).mCollectedSignals[2].value = 67438087

C13_Step ==
    (/\ Ingesting
     /\ dictHandle # NullDict
     /\ ~Matched(dictHandle, NewFrame.channelId, NewFrame.messageId))
    => pushed' = pushed

\* C13: a frame whose (channel, id) has no decoder method in the installed
\* dictionary, neither directly nor under the extended-id mask, pushes
\* nothing.
C13_UnknownFrameIgnored == [][C13_Step]_vars

\* C13 witness: under the test dictionary a 0x123 frame was pushed and then
\* a 0x456 frame with the later timestamp was ingested and left the pushed
\* frames at that one.
C13_Witness ==
    /\ ingested = 2
    /\ dictSeen = << "test", "test" >>
    /\ lastFrame[1].messageId = MsgId(0, 1110)
    /\ lastFrame[1].channelId = 0
    /\ lastFrame[1].timestamp = 1
    /\ Len(pushed) = 1

C14_Step ==
    (/\ Ingesting
     /\ dictHandle # NullDict
     /\ Matched(dictHandle, NewFrame.channelId, NewFrame.messageId))
    => LET f == NewFrame
           method == MethodFor(dictHandle, f.channelId, f.messageId)
           wanted == (FormatIds(method.format.mSignals)
                        \cap Deref(dictHandle).signalIDsToCollect) \ {INVALID_SIGNAL_ID}
           decodable == /\ method.format.valid
                        /\ wanted # {}
                        /\ \A i \in 1..Len(method.format.mSignals) :
                              method.format.mSignals[i].mSignalID \in wanted =>
                                  SignalFits(method.format.mSignals[i], Len(f.data))
       IN  /\ Len(NewPushed) = 1
           /\ method.collectType = "RAW" =>
                 /\ Len(NewPushed[1].mCollectedCanRawFrame) = 1
                 /\ NewPushed[1].mCollectedSignals = << >>
           /\ method.collectType = "DECODE" =>
                 /\ NewPushed[1].mCollectedCanRawFrame = NoRawFrame
                 /\ decodable => NewPushed[1].mCollectedSignals # << >>
           /\ method.collectType = "RAW_AND_DECODE" =>
                 /\ Len(NewPushed[1].mCollectedCanRawFrame) = 1
                 /\ decodable => NewPushed[1].mCollectedSignals # << >>

IdsToEmit(d, method) ==
    (FormatIds(method.format.mSignals) \cap Deref(d).signalIDsToCollect)
        \ {INVALID_SIGNAL_ID}

\* of those, the ids of the signals that lie in a payload of that length
IdsInPayload(d, method, dataLength) ==
    { id \in IdsToEmit(d, method) :
          \E i \in 1..Len(method.format.mSignals) :
              /\ method.format.mSignals[i].mSignalID = id
              /\ SignalFits(method.format.mSignals[i], dataLength) }

\* this step ingests a frame that the active dictionary has a method for
IngestingMatched ==
    /\ Ingesting
    /\ dictHandle # NullDict
    /\ Matched(dictHandle, NewFrame.channelId, NewFrame.messageId)

NewMethod == MethodFor(dictHandle, NewFrame.channelId, NewFrame.messageId)

C15_Step ==
    (/\ IngestingMatched
     /\ NewMethod.format.valid
     /\ NewMethod.collectType \in {"DECODE", "RAW_AND_DECODE"})
    => /\ Len(NewPushed) = 1
       /\ CollectedIds(NewPushed[1].mCollectedSignals) = IdsToEmit(dictHandle, NewMethod)

\* C15: for every frame with a known (channel, id), a valid format and
\* collect type DECODE or RAW_AND_DECODE, the signal ids of the pushed frame
\* are exactly the format's signal ids that are in signalIDsToCollect, minus
\* INVALID_SIGNAL_ID.
C15_EmittedIdsExact == [][C15_Step]_vars

\* every signal of the format that is to be collected lies in the payload
AllToCollectInPayload(d, method, dataLength) ==
    \A i \in 1..Len(method.format.mSignals) :
        method.format.mSignals[i].mSignalID \in Deref(d).signalIDsToCollect =>
            SignalFits(method.format.mSignals[i], dataLength)

C15_StepAmended ==
    (/\ IngestingMatched
     /\ NewMethod.format.valid
     /\ NewMethod.collectType \in {"DECODE", "RAW_AND_DECODE"})
    => LET ids == CollectedIds(NewPushed[1].mCollectedSignals)
           allIn == AllToCollectInPayload(dictHandle, NewMethod, Len(NewFrame.data))
       IN  /\ Len(NewPushed) = 1
           /\ ids \subseteq Deref(dictHandle).signalIDsToCollect
           /\ INVALID_SIGNAL_ID \notin ids
           /\ allIn => ids = IdsToEmit(dictHandle, NewMethod)
           /\ ~allIn => ids = {}

\* C15 as the code has it: for every frame with a known (channel, id), a
\* valid format and collect type DECODE or RAW_AND_DECODE, no signal id of the
\* pushed frame is outside signalIDsToCollect and none is INVALID_SIGNAL_ID;
\* the ids are exactly the format's ids to collect minus INVALID_SIGNAL_ID
\* when every signal to collect lies in the payload, and there are none when
\* one of them does not.
C15_EmittedIdsWithinCollect == [][C15_StepAmended]_vars

\* C15 witness: message 0x123 on channel 1 with a 64-byte payload under the
\* other dictionary, whose format has signals 1, 7, 9 and one with the
\* invalid sentinel, 7, 9 and the sentinel being to collect: signals 7 and 9
\* were pushed.
C15_Witness ==
    /\ lastFrame # NoFrame
    /\ lastFrame[1].messageId = MsgId(0, 291)
    /\ lastFrame[1].channelId = 1
    /\ Len(lastFrame[1].data) = 64
    /\ Last(dictSeen) = "other"
    /\ Len(pushed) = 1
    /\ CollectedIds(pushed[1].mCollectedSignals) = {7, 9}

C16_Step ==
    (IngestingMatched /\ ~NewMethod.format.valid)
    => /\ Len(NewPushed) = 1
       /\ NewPushed[1].mCollectedSignals = << >>
       /\ NewMethod.collectType \in {"RAW", "RAW_AND_DECODE"} =>
             /\ Len(NewPushed[1].mCollectedCanRawFrame) = 1
             /\ NewPushed[1].mCollectedCanRawFrame[1].channelId = NewFrame.channelId
             /\ NewPushed[1].mCollectedCanRawFrame[1].frameID
                    = KeyFor(dictHandle, NewFrame.channelId, NewFrame.messageId)
             /\ NewPushed[1].mCollectedCanRawFrame[1].receiveTime = NewFrame.timestamp

\* C16: a matched frame whose message format is marked invalid gives no
\* signals, and its collected data frame is still pushed with the raw-frame
\* record of the frame when the collect type asks for the raw frame
\* (RAW_AND_DECODE, RAW).
C16_InvalidFormatKeepsRaw == [][C16_Step]_vars

\* C16 witness: message 0x456 on channel 1, RAW_AND_DECODE with an invalid
\* format in the other dictionary, was pushed with its raw-frame record and
\* no signals although signal 7 of the format is to be collected and lies in
\* its 64-byte payload.
C16_Witness ==
    /\ lastFrame # NoFrame
    /\ lastFrame[1].messageId = MsgId(0, 1110)
    /\ lastFrame[1].channelId = 1
    /\ Len(lastFrame[1].data) = 64
    /\ Last(dictSeen) = "other"
    /\ Len(pushed) = 1
    /\ pushed[1].mCollectedSignals = << >>
    /\ pushed[1].mCollectedCanRawFrame # NoRawFrame
    /\ pushed[1].mCollectedCanRawFrame[1].size = 64

C17_Step ==
    (/\ IngestingMatched
     /\ NewMethod.format.valid
     /\ NewMethod.collectType \in {"DECODE", "RAW_AND_DECODE"})
    => /\ Len(NewPushed) = 1
       /\ IdsInPayload(dictHandle, NewMethod, Len(NewFrame.data))
              \subseteq CollectedIds(NewPushed[1].mCollectedSignals)

\* C17: when some signal of a frame cannot be decoded, the signals of the
\* same frame that can be (those to collect that lie in the payload) are
\* still in the pushed collected data frame.
C17_PartialDecodeEmits == [][C17_Step]_vars

C18_Step ==
    (IngestingMatched /\ NewMethod.collectType \in {"RAW", "RAW_AND_DECODE"})
    => /\ Len(NewPushed) = 1
       /\ Len(NewPushed[1].mCollectedCanRawFrame) = 1
       /\ LET raw == NewPushed[1].mCollectedCanRawFrame[1]
               L == Len(NewFrame.data)
           IN  /\ raw.size = Min(L, 64)
               /\ raw.data = SubSeq(NewFrame.data, 1, raw.size)

\* C18: for every payload length L the raw-frame record has size min(L, 64)
\* and holds the first size bytes of the payload, also for L > 255.
C18_RawSizeIsMinOfLength == [][C18_Step]_vars

\* this step ingests one of the two reference payloads as message 0x123 on
\* channel 0 under the test dictionary
IngestingFixture ==
    /\ Ingesting
    /\ dictHandle = "test"
    /\ NewFrame.channelId = 0
    /\ NewFrame.messageId = MsgId(0, 291)
    /\ NewFrame.data \in { TestPayload(8), TestPayload(64) }

\* the value of a signal under the rule that a big-endian start bit denotes
\* the most significant bit: sign-extended, raw * factor + offset
ValueMsbAtStart(data, sig) ==
    SignExtend(RawValueMsbAtStart(data, sig), sig.mSizeInBits) * sig.mFactor + sig.mOffset

\* the values the test asserts: 0x10203 and 0x4050607
FixtureValues == << 66051, 67438087 >>

\* the values of the collected signals of a pushed frame, in order
ValuesOf(frame) ==
    [i \in 1..Len(frame.mCollectedSignals) |-> frame.mCollectedSignals[i].value]

C19_StepMsb ==
    IngestingFixture
    => LET signals == TestDictionary.canMessageDecoderMethod[0][MsgId(0, 291)].format.mSignals
           byRule == [i \in 1..2 |-> ValueMsbAtStart(NewFrame.data, signals[i])]
       IN  /\ byRule = FixtureValues
           /\ Len(NewPushed) = 1
           /\ ValuesOf(NewPushed[1]) = byRule

\* C19: for the reference fixture (channel 0, id 0x123, signal 1 at start bit
\* 24 width 30 and signal 7 at start bit 56 width 31, big-endian, signed,
\* factor 1, offset 0) the extraction rule with the big-endian start bit as
\* the most significant bit gives 0x10203 and 0x4050607, and these are the
\* values pushed, for the payload 00..07 and for the payload 00..3F.
C19_MsbRuleGivesFixtureValues == [][C19_StepMsb]_vars

C19_StepLsb ==
    IngestingFixture
    => /\ Len(NewPushed) = 1
       /\ ValuesOf(NewPushed[1]) = FixtureValues
       /\ CollectedIds(NewPushed[1].mCollectedSignals) = {1, 7}
       /\ NewPushed[1].mCollectedSignals[1].signalID = 1
       /\ NewPushed[1].mCollectedSignals[2].signalID = 7
       /\ \A i \in 1..2 : NewPushed[1].mCollectedSignals[i].type = "DOUBLE"

\* C19 with the start bit read as the test vectors require: the start bit of
\* a big-endian signal is the position of its least significant bit (bit
\* start mod 8 of byte start div 8), the more significant bits following in
\* the bytes before it; sign-extended and scaled, the reference fixture gives
\* signal 1 = 0x10203 and signal 7 = 0x4050607, in that order, for the
\* payload 00..07 and for the payload 00..3F.
C19_LsbRuleGivesFixtureValues == [][C19_StepLsb]_vars

\* C19 witness: the 64-byte reference payload was ingested as 0x123 on
\* channel 0 under the test dictionary and pushed with the two values.
C19_Witness ==
    /\ lastFrame # NoFrame
    /\ lastFrame[1].data = TestPayload(64)
    /\ lastFrame[1].channelId = 0
    /\ lastFrame[1].messageId = MsgId(0, 291)
    /\ Last(dictSeen) = "test"
    /\ Len(pushed) = 1
    /\ ValuesOf(pushed[1]) = FixtureValues

-----------------------------------------------------------------------------
(* Properties of the dictionary-change notifications *)

C20_Step ==
    /\ (changes' = changes + 1 /\ lastChange'[1].protocol # "RAW_SOCKET") =>
          (dictHandle' = dictHandle /\ pushed' = pushed)
    /\ (/\ Ingesting
        /\ dictHandle = NullDict
        /\ lastChange # << >>
        /\ lastChange[1].protocol # "RAW_SOCKET") => pushed' = pushed

\* C20: a dictionary-change notification for a protocol other than RAW_SOCKET
\* leaves the active dictionary as it was; a frame ingested after such a
\* notification, the active dictionary having been null, still pushes
\* nothing.
C20_OtherProtocolIgnored == [][C20_Step]_vars

\* C20 witness: the test dictionary was installed and a frame pushed, null
\* was installed and a frame dropped, then the test dictionary was delivered
\* for OBD and a third frame was ingested under the null handle and dropped.
C20_Witness ==
    /\ changes = 3
    /\ lastChange = << [dictionary |-> "test", protocol |-> "OBD"] >>
    /\ dictHandle = NullDict
    /\ dictSeen = << "test", NullDict, NullDict >>
    /\ Len(pushed) = 1

-----------------------------------------------------------------------------
(* C21 *)

\* the place of a signal id in a format's signal list (0 if absent)
PositionIn(signals, id) ==
    IF \E i \in 1..Len(signals) : signals[i].mSignalID = id
    THEN CHOOSE i \in 1..Len(signals) : signals[i].mSignalID = id
    ELSE 0

\* C21: collected data frames reach the distributor in frame arrival order:
\* a frame's record is pushed behind the records of all frames processed
\* before it (the earlier records stay where they were, in their order), and
\* within the record the collected signals keep the order of the decoder's
\* output, which is the order of the format's signal list.
C21_Step ==
    Ingesting =>
        /\ Len(pushed') >= Len(pushed)
        /\ SubSeq(pushed', 1, Len(pushed)) = pushed
        /\ \A k \in 1..Len(NewPushed) :
              LET sigs == NewPushed[k].mCollectedSignals
                  fmt == NewMethod.format.mSignals
              IN  \A i, j \in 1..Len(sigs) :
                     i < j => /\ PositionIn(fmt, sigs[i].signalID) > 0
                              /\ PositionIn(fmt, sigs[i].signalID)
                                   < PositionIn(fmt, sigs[j].signalID)

C21_ArrivalOrderKept == [][C21_Step]_vars

\* the 8-byte frame and then the FD frame of the tests were ingested on
\* channel 0 under the test dictionary: two records, in that order, each with
\* signal 1 before signal 7
C21_Witness ==
    /\ ingested = 2
    /\ Len(pushed) = 2
    /\ pushed[1].mCollectedCanRawFrame # NoRawFrame
    /\ pushed[2].mCollectedCanRawFrame # NoRawFrame
    /\ pushed[1].mCollectedCanRawFrame[1].size = 8
    /\ pushed[2].mCollectedCanRawFrame[1].size = 64
    /\ pushed[1].mCollectedCanRawFrame[1].channelId = 0
    /\ pushed[2].mCollectedCanRawFrame[1].channelId = 0
    /\ \A k \in 1..2 : Len(pushed[k].mCollectedSignals) = 2
                        /\ pushed[k].mCollectedSignals[1].signalID = 1
                        /\ pushed[k].mCollectedSignals[2].signalID = 7

-----------------------------------------------------------------------------
(* C22 *)

\* the collected data frame the tests expect for message 0x123 on channel 0
\* under the dictionary of SetUp, for a payload and a timestamp
FixtureRecord(data, timestamp) ==
    [ mCollectedCanRawFrame |->
          << [ frameID |-> MsgId(0, 291), channelId |-> 0, receiveTime |-> timestamp,
               size |-> Len(data), data |-> data ] >>,
      mCollectedSignals |->
          << [ signalID |-> 1, receiveTime |-> timestamp, value |-> FixtureValues[1],
               type |-> "DOUBLE" ],
             [ signalID |-> 7, receiveTime |-> timestamp, value |-> FixtureValues[2],
               type |-> "DOUBLE" ] >> ]

\* C22: a data-plane error never affects the next frame: whatever frames came
\* before (dropped under a null dictionary, unknown id, invalid format, failed
\* decoding), what a frame pushes depends only on the frame and on the
\* dictionary observed for it; in particular the test frame under the test
\* dictionary always gives the record the tests expect.
C22_Step ==
    Ingesting =>
        /\ NewPushed = (IF dictHandle = NullDict
                        THEN << >>
                        ELSE ProcessUnderDictionary(NewFrame.channelId, Deref(dictHandle),
                                                    NewFrame.messageId, NewFrame.data,
                                                    Len(NewFrame.data), NewFrame.timestamp))
        /\ (dictHandle = "test" /\ NewFrame.channelId = 0
                /\ NewFrame.messageId \in { MsgId(0, 291), MsgId(4, 291) })
              => NewPushed = << FixtureRecord(NewFrame.data, NewFrame.timestamp) >>

C22_NextFramePreserved == [][C22_Step]_vars

\* a frame was dropped under the null dictionary, the next failed to decode
\* under the other dictionary (an empty record), and the third, the test
\* frame under the test dictionary, gave the expected record
C22_Witness ==
    /\ dictSeen = << NullDict, "other", "test" >>
    /\ Len(pushed) = 2
    /\ pushed[1] = [ mCollectedCanRawFrame |-> NoRawFrame, mCollectedSignals |-> << >> ]
    /\ pushed[2] = FixtureRecord(TestPayload(8), 0)

-----------------------------------------------------------------------------
(* C28 *)

\* the signal type a format declares for a signal id
DeclaredType(format, id) == format.mSignals[PositionIn(format.mSignals, id)].mSignalType

\* C28: every record produced for a frame carries that frame's data: each
\* collected signal has the frame's timestamp and the signal type its format
\* declares, and the raw-frame record has the frame's timestamp as receiveTime
\* and the frame's channel as channelId.
C28_Step ==
    Ingesting =>
        \A k \in 1..Len(NewPushed) :
            LET rec == NewPushed[k]
            IN  /\ rec.mCollectedCanRawFrame # NoRawFrame =>
                      /\ rec.mCollectedCanRawFrame[1].receiveTime = NewFrame.timestamp
                      /\ rec.mCollectedCanRawFrame[1].channelId = NewFrame.channelId
                /\ \A i \in 1..Len(rec.mCollectedSignals) :
                      LET sig == rec.mCollectedSignals[i]
                      IN  /\ sig.receiveTime = NewFrame.timestamp
                          /\ PositionIn(NewMethod.format.mSignals, sig.signalID) > 0
                          /\ sig.type = DeclaredType(NewMethod.format, sig.signalID)

C28_RecordCarriesFrameData == [][C28_Step]_vars

\* a 64-byte frame of message 0x123 with timestamp 5 on channel 1 under the
\* other dictionary: signal 7 collected as a double and signal 9 as a uint8,
\* both with the frame's timestamp
C28_Witness ==
    /\ lastFrame # NoFrame
    /\ lastFrame[1].channelId = 1
    /\ lastFrame[1].timestamp = 5
    /\ Len(pushed) = 1
    /\ pushed[1].mCollectedSignals =
          << [ signalID |-> 7, receiveTime |-> 5, value |-> FixtureValues[2],
               type |-> "DOUBLE" ],
             [ signalID |-> 9, receiveTime |-> 5, value |-> -80, type |-> "UINT8" ] >>

-----------------------------------------------------------------------------
(* C29 *)

\* the counters processMessage has a hand in: it owns none, and of the trace
\* module it calls sectionBegin (line 78) and sectionEnd (line 152, once for
\* each collected data frame it pushes) only
ConsumerCounters == << sectionsBegun, Len(pushed) >>

ConsumerCountersNext == << sectionsBegun', Len(pushed') >>

\* C29: a frame dropped because the dictionary handle is null increments a
\* drop counter by exactly one, and a frame that is processed leaves that
\* counter alone: some counter the consumer touches behaves so.
C29_Step ==
    \E c \in 1..Len(ConsumerCounters) :
        Ingesting =>
            IF dictHandle = NullDict
            THEN ConsumerCountersNext[c] = ConsumerCounters[c] + 1
            ELSE ConsumerCountersNext[c] = ConsumerCounters[c]

C29_NullDropCounted == [][C29_Step]_vars

-----------------------------------------------------------------------------
(* C30 *)

\* the collected data frame with no raw frame and no signals
EmptyFrame == [ mCollectedCanRawFrame |-> NoRawFrame, mCollectedSignals |-> << >> ]

\* the decoder rejects the payload for the format and the signals to collect
DecodeFails(d, method, data) ==
    ~DecodeCANMessage(data, Len(data), method.format, Deref(d).signalIDsToCollect).ok

\* C30: a processMessage call pushes at most one collected data frame, and
\* exactly one iff the dictionary is non-null and a decoder method is found
\* for the frame's channel and id, directly or under the mask; the frame is
\* pushed even when empty: with collect type DECODE and an invalid format or
\* a failed decode, the one frame pushed has no raw frame and no signals.
C30_Step ==
    Ingesting =>
        /\ Len(NewPushed) <= 1
        /\ Len(NewPushed) = 1 <=>
              (dictHandle # NullDict
                 /\ Matched(dictHandle, NewFrame.channelId, NewFrame.messageId))
        /\ (IngestingMatched /\ NewMethod.collectType = "DECODE"
              /\ (~NewMethod.format.valid \/ DecodeFails(dictHandle, NewMethod, NewFrame.data)))
             => NewPushed = << EmptyFrame >>

C30_OnePushPerMatchedFrame == [][C30_Step]_vars

\* message 0x123 with an 8-byte payload on channel 1 under the other
\* dictionary: collect type DECODE, signal 9 lies beyond the payload, the
\* decode fails and one empty frame is pushed
C30_Witness ==
    /\ dictSeen = << "other" >>
    /\ lastFrame # NoFrame
    /\ lastFrame[1].channelId = 1
    /\ lastFrame[1].messageId = MsgId(0, 291)
    /\ Len(lastFrame[1].data) = 8
    /\ pushed = << EmptyFrame >>

-----------------------------------------------------------------------------
(* C23 *)

\* evaluation i found the expression true when the evaluation before it (if
\* there was one) did not
RisingAt(i) ==
    /\ calls[i].result = "true"
    /\ i > 1 => calls[i - 1].result # "true"

FiresIn == { i \in 1..Len(calls) : calls[i].fired }

\* C23: a rising-edge campaign emits iff the previous evaluation result was
\* false or undefined and the current one is true; so the number of fires is
\* at most the number of false->true transitions of the expression, and the
\* campaign does not fire again while the expression stays true.  For the
\* math campaign: (3,4) evaluates to false, (80,80) to true.
C23_RisingEdgeFiresOnce ==
    /\ \A i \in 1..Len(calls) : calls[i].fired <=> RisingAt(i)
    /\ Cardinality(FiresIn) <= Cardinality({ i \in 1..Len(calls) : RisingAt(i) })
    /\ \A i \in 2..Len(calls) :
          (calls[i - 1].result = "true" /\ calls[i].result = "true") => ~calls[i].fired
    /\ \A i \in 1..Len(calls) :
          /\ calls[i].sample = << 3, 4 >> => calls[i].result = "false"
          /\ calls[i].sample = << 80, 80 >> => calls[i].result = "true"

\* S4: fed (3,4) the campaign does not fire, raised to (80,80) it fires, and
\* evaluated twice more above the threshold it does not fire again
C23_Witness ==
    /\ Len(calls) = 4
    /\ [i \in 1..4 |-> calls[i].sample] = << << 3, 4 >>, << 80, 80 >>, << 80, 80 >>, << 80, 80 >> >>
    /\ [i \in 1..4 |-> calls[i].fired] = << FALSE, TRUE, FALSE, FALSE >>

-----------------------------------------------------------------------------
(* C24 *)

\* call i is an invocation with the id, and j < i is the invocation with that
\* id before it, no cleanup of the id in between
InvocationBefore(i, j) ==
    /\ j < i
    /\ calls[i].op = "invoke"
    /\ calls[j].op = "invoke"
    /\ calls[j].id = calls[i].id
    /\ \A k \in (j + 1)..(i - 1) : calls[k].id # calls[i].id

\* the conditions that changed from false to true between calls j and i
RoseBetween(j, i) ==
    { k \in 1..Len(ConditionNames) : ~calls[j].args[k] /\ calls[i].args[k] }

\* names lists exactly the conditions of the set, in argument order
NamesInOrder(names, conditions) ==
    /\ Len(names) = Cardinality(conditions)
    /\ \A n \in 1..Len(names) :
          \E k \in conditions :
              /\ names[n] = ConditionNames[k]
              /\ Cardinality({ c \in conditions : c < k }) = n - 1

\* C24: MULTI_RISING_EDGE_TRIGGER returns true iff at least one of its named
\* conditions changed from false to true since the previous invocation with
\* the same invocation id, and false otherwise; when it returns true the names
\* reported are exactly the conditions that rose, in argument order.  ALARM1
\* rising alone reports ["ALARM1"], ALARM1 and ALARM3 rising together report
\* ["ALARM1","ALARM3"], ALARM1 staying true with nothing else rising returns
\* false.
C24_MultiRisingEdge ==
    \A i \in 1..Len(calls) : \A j \in 1..Len(calls) :
        InvocationBefore(i, j) =>
            /\ calls[i].result = << RoseBetween(j, i) # {} >>
            /\ NamesInOrder(calls[i].names, RoseBetween(j, i))
            /\ (calls[j].args = << FALSE, FALSE, FALSE >>
                   /\ calls[i].args = << TRUE, FALSE, FALSE >>)
                 => calls[i].names = << "ALARM1" >>
            /\ (calls[j].args = << FALSE, FALSE, FALSE >>
                   /\ calls[i].args = << TRUE, FALSE, TRUE >>)
                 => calls[i].names = << "ALARM1", "ALARM3" >>
            /\ (calls[j].args = << TRUE, FALSE, FALSE >>
                   /\ calls[i].args = << TRUE, FALSE, FALSE >>)
                 => calls[i].result = << FALSE >>

\* S5 under invocation id 1, with an invocation under id 2 in between: all
\* false, then ALARM1 and ALARM3 rising together report both names, then the
\* same values again return false
C24_Witness ==
    /\ Len(calls) = 4
    /\ [i \in 1..4 |-> calls[i].id] = << 1, 2, 1, 1 >>
    /\ \A i \in 1..4 : calls[i].op = "invoke"
    /\ calls[1].args = << FALSE, FALSE, FALSE >>
    /\ calls[2].args = << TRUE, FALSE, FALSE >>
    /\ calls[3].args = << TRUE, FALSE, TRUE >>
    /\ calls[3].result = << TRUE >>
    /\ calls[3].names = << "ALARM1", "ALARM3" >>
    /\ calls[4].args = << TRUE, FALSE, TRUE >>
    /\ calls[4].result = << FALSE >>
    /\ calls[4].names = << >>

-----------------------------------------------------------------------------
(* C25 *)

\* the invokes made with the id of call i before call i and since the last
\* cleanup of that id
InvokesBefore(i) ==
    { j \in 1..(i - 1) :
        /\ calls[j].id = calls[i].id
        /\ calls[j].op = "invoke"
        /\ \A k \in (j + 1)..(i - 1) :
              ~(calls[k].id = calls[i].id /\ calls[k].op = "cleanup") }

\* C25: the counter custom function keeps its state per invocation id: the
\* n-th invoke (n = 0, 1, 2, ...) with an id since the last cleanup of that id
\* returns n, whatever invokes and cleanups were made with other ids; so
\* after cleanup(id) the next invoke with id returns 0 again, and the
\* counters of the other ids go on.
C25_CounterPerInvocation ==
    /\ \A i \in 1..Len(calls) :
          calls[i].op = "invoke" =>
              calls[i].result = << [ status |-> "SUCCESSFUL",
                                     value |-> Cardinality(InvokesBefore(i)) ] >>
    /\ \A id \in DOMAIN mCounters :
          \E i \in 1..Len(calls) :
              /\ calls[i].id = id
              /\ calls[i].op = "invoke"
              /\ mCounters[id] = Cardinality(InvokesBefore(i)) + 1
              /\ \A k \in (i + 1)..Len(calls) : calls[k].id # id

\* id 1 invoked twice (0, 1), id 2 once (0), id 1 cleaned up, then id 1
\* returns 0 again and id 2 goes on with 1
C25_Witness ==
    /\ Len(calls) = 6
    /\ [i \in 1..6 |-> calls[i].id] = << 1, 1, 2, 1, 1, 2 >>
    /\ calls[4].op = "cleanup"
    /\ \A i \in {1, 2, 3, 5, 6} : calls[i].op = "invoke"
    /\ [i \in {1, 2, 3, 5, 6} |-> calls[i].result[1].value]
          = (1 :> 0) @@ (2 :> 1) @@ (3 :> 0) @@ (5 :> 0) @@ (6 :> 1)

-----------------------------------------------------------------------------
(* C26 *)

\* a call is made in this step; the call made
Calling == Len(calls') = Len(calls) + 1

NewCall == calls'[Len(calls')]

ConditionEnding == Calling /\ NewCall.fn = "file_size" /\ NewCall.op = "conditionEnd"

\* the campaign triggered and the function's signal id is a valid one among
\* the collected signal ids
MayAppend(call) ==
    /\ call.triggered
    /\ call.signalId # INVALID_SIGNAL_ID
    /\ call.signalId \in call.collected

\* call j is an invoke of file_size that stored the value x, and no call
\* between j and i stored another or was a condition-end call
StoredFor(j, i, x) ==
    /\ j < i
    /\ calls[j].fn = "file_size"
    /\ calls[j].op = "invoke"
    /\ calls[j].result[1] = WithValue("SUCCESSFUL", "int", x)
    /\ \A k \in (j + 1)..(i - 1) :
          \/ calls[k].fn = "sin"
          \/ calls[k].op = "invoke" /\ calls[k].result[1].status = "TYPE_MISMATCH"

\* every signal a condition-end call appended carries the value of an invoke
\* made since the condition-end call before it: no value is emitted twice
EmittedOnce ==
    \A i \in 1..Len(calls) :
        (calls[i].op = "conditionEnd" /\ calls[i].appended # << >>) =>
            \E j \in 1..Len(calls) : StoredFor(j, i, calls[i].appended[1].value)

\* C26 as stated: the condition-end callback of the file-size function appends
\* its signal iff the campaign triggered and the function's signal id is in
\* the collected signal ids and is not the invalid id; at most one signal is
\* appended per call, none when collection did not trigger, and every call
\* clears the stored value, so that no value is emitted twice.
C26_Step ==
    ConditionEnding =>
        /\ NewCall.appended # << >> <=> MayAppend(NewCall)
        /\ Len(NewCall.appended) <= 1
        /\ ~NewCall.triggered => NewCall.appended = << >>
        /\ mFileSize' = -1

C26_StepAmended ==
    ConditionEnding =>
        /\ NewCall.appended # << >> <=> (mFileSize >= 0 /\ MayAppend(NewCall))
        /\ NewCall.appended # << >> =>
              NewCall.appended = << [ signalID |-> NewCall.signalId,
                                      receiveTime |-> Len(calls),
                                      value |-> mFileSize, type |-> "DOUBLE" ] >>
        /\ Len(NewCall.appended) <= 1
        /\ ~NewCall.triggered => NewCall.appended = << >>
        /\ mFileSize' = -1

-----------------------------------------------------------------------------
(* C27 *)

Invoking == Calling /\ NewCall.op = "invoke"

\* the number of arguments the function takes, and the argument types it
\* accepts
ArityOf(fn) == 1

AcceptedTypes(fn) == IF fn = "sin" THEN { "BOOL", "DOUBLE" } ELSE { "STRING" }

\* C27: custom-function argument checking: an arity mismatch or an argument
\* of the wrong element type yields TYPE_MISMATCH with no value; an undefined
\* argument yields SUCCESSFUL with an undefined result (no value) and no
\* change to the function's state; arguments of the right number and type
\* yield SUCCESSFUL with a value.  For sin: args.size() # 1 gives
\* TYPE_MISMATCH, an undefined argument SUCCESSFUL without value, a string
\* TYPE_MISMATCH, a bool or double SUCCESSFUL with a value.
C27_Step ==
    Invoking =>
        LET args == NewCall.args
            res == NewCall.result[1]
        IN  IF Len(args) # ArityOf(NewCall.fn)
            THEN res = ErrorCode("TYPE_MISMATCH")
            ELSE IF \E i \in 1..Len(args) : IsUndefined(args[i])
            THEN res = ErrorCode("SUCCESSFUL") /\ mFileSize' = mFileSize
            ELSE IF \E i \in 1..Len(args) : args[i].type \notin AcceptedTypes(NewCall.fn)
            THEN res = ErrorCode("TYPE_MISMATCH")
            ELSE res.status = "SUCCESSFUL" /\ res.value # << >>

C27_ArgumentChecking == [][C27_Step]_vars

-----------------------------------------------------------------------------
(* C31 *)

\* C31: processMessage never dereferences a null distributor: a consumer
\* constructed with a null signal-buffer distributor processes a frame with
\* a known (channel, id) without building records and without any push
\* through the null handle, so nothing is ever pushed and no push is ever
\* made through the null handle.
C31_NullDistributorNeverDereferenced ==
    mSignalBufferDistributor = NullDistributor =>
        /\ ~nullPush
        /\ pushed = << >>

-----------------------------------------------------------------------------
(* C32 *)

C32_Step ==
    (Ingesting /\ dictHandle # NullDict) =>
        LET f == NewFrame
            keys == KeysOf(dictHandle, f.channelId)
        IN  /\ f.messageId \in keys =>
                LET direct == Deref(dictHandle).canMessageDecoderMethod[f.channelId][f.messageId]
                    raw == NewPushed[1].mCollectedCanRawFrame
                IN  /\ Len(NewPushed) = 1
                    /\ Len(raw) = (IF WantsRaw(direct.collectType) THEN 1 ELSE 0)
                    /\ \A i \in 1..Len(raw) : raw[i].frameID = f.messageId
                    /\ ~WantsDecode(direct.collectType) =>
                           NewPushed[1].mCollectedSignals = << >>
            /\ {f.messageId, MaskEff(f.messageId)} \cap keys = {} => NewPushed = << >>

\* C32: a direct dictionary hit takes priority over the masked one and leaves
\* the frame id unchanged: if method[channel] contains the id as received,
\* that entry is used and the emitted frame id equals the received id bit for
\* bit, flag bits included, even when method[channel] also contains
\* id & 0x1FFFFFFF; and a frame whose id is registered only under another
\* channel is not matched.
C32_DirectHitFirst == [][C32_Step]_vars

\* C32 witness: message 0x123 with the extended-frame flag arrived on channel
\* 1 under the other dictionary, which has RAW under the flagged id and
\* DECODE under the masked one: one frame was pushed, its raw frame carries
\* the flagged id and it has no signals.
C32_Witness ==
    /\ ingested = 1
    /\ changes = 1
    /\ dictHandle = "other"
    /\ lastFrame[1].channelId = 1
    /\ lastFrame[1].messageId = MsgId(4, 291)
    /\ MsgId(0, 291) \in KeysOf("other", 1)
    /\ Len(pushed) = 1
    /\ Len(pushed[1].mCollectedCanRawFrame) = 1
    /\ pushed[1].mCollectedCanRawFrame[1].frameID = MsgId(4, 291)
    /\ pushed[1].mCollectedSignals = << >>

-----------------------------------------------------------------------------
(* C33 *)

\* the outcomes reported to onFinished in the current run
Reported == { finished[i] : i \in 1..Len(finished) }

\* C33: the outcome reported to onFinished is justified by the run:
\* onFinished(SUCCESS) is delivered only if the last attempt() of that run
\* returned SUCCESS, onFinished(ABORT) only if the last attempt() returned
\* ABORT or stop() was called during that run, and onFinished(RETRY) never.
C33_OutcomeJustified ==
    /\ "RETRY" \notin Reported
    /\ "SUCCESS" \in Reported => results # << >> /\ Last(results) = "SUCCESS"
    /\ "ABORT" \in Reported =>
           \/ results # << >> /\ Last(results) = "ABORT"
           \/ StopRequested

\* C33 witness: the second run ended in onFinished(ABORT) after one attempt
\* that returned RETRY, because stop() was called during it.
C33_Witness ==
    /\ runs = 2
    /\ results = << "RETRY" >>
    /\ finished = << "ABORT" >>
    /\ StopRequested

-----------------------------------------------------------------------------
(* C34 *)

\* a stop() call that has set the stop flag and has not yet returned: it
\* holds the thread mutex
StopInProgress == \E c \in Callers : cpc[c] \in {"stop_notify", "stop_join"} /\ mutex = c

\* this step is start()'s store of false to the stop flag
StartResets == starts' = starts + 1

C34_State == fShouldStop => StopInProgress

C34_Step ==
    /\ StartResets => ~fShouldStop /\ ~StopInProgress
    /\ (fShouldStop /\ ~fShouldStop') =>
           /\ ~WorkerRunning
           /\ \E c \in Callers : cpc[c] = "stop_join" /\ cpc'[c] = "idle"
    /\ (StopRequested /\ StopRequested' /\ WorkerRunning') => fShouldStop'

\* C34: a stop request is never lost to a concurrent start(): start() and
\* stop() serialize on the thread mutex, so start()'s reset of the stop flag
\* to false does not occur between stop()'s setting of the flag and the
\* worker's exit (the flag stays set for as long as the worker it was set
\* for runs, and falls only when stop() has joined that worker); and the
\* stop flag is false whenever no stop() call is in progress, so a worker
\* started after a completed stop() does not find a stale flag.
C34_StopNotLostToStart == []C34_State /\ [][C34_Step]_vars

\* C34 witness: one caller's stop() has joined the first run and returned,
\* the other caller has started a second run, and its worker has made an
\* attempt and is retrying with the stop flag clear.
C34_Witness ==
    /\ runs = 2
    /\ WorkerRunning
    /\ results = << "RETRY" >>
    /\ ~fShouldStop
    /\ ~StopRequested
    /\ \E c \in Callers : ret[c].op = "stop" /\ ret[c].note = "joined"

-----------------------------------------------------------------------------
(* C35 *)

\* caller c's stop() returns in this step
StopReturns(c) ==
    /\ cpc[c] \in {"stop_ret", "stop_join"}
    /\ cpc'[c] = "idle"

C35_Step ==
    \A c \in Callers :
        (StopReturns(c) /\ ret'[c].val) => ~(thrValid' /\ wpc' # "done")

\* C35: whenever stop() returns true, no worker of the RetryThread is active
\* any more, under any interleaving of concurrent start() and stop() calls,
\* a stop() whose validity check runs before a concurrent start() creates
\* the worker included.
C35_StopTrueMeansNoWorker == [][C35_Step]_vars

-----------------------------------------------------------------------------
(* C36 *)

\* this step is the first wait of a run
FirstWait == waits = << >> /\ Len(waits') = 1

C36_Step ==
    /\ (wpc = "init" /\ wpc' = "check") => fCurrentWaitTime' = cfg.start
    /\ FirstWait => waits'[1] = cfg.start

\* C36: the backoff is reset on every run: after any sequence start(),
\* retries, stop() (or natural completion), start(), the first wait of the
\* new run is again start_ms, however far the backoff had grown in the
\* previous run.
C36_BackoffResetEveryRun == [][C36_Step]_vars

\* C36 witness: the second run was started when the first had left the
\* backoff above start_ms, and its first wait was start_ms.
C36_Witness ==
    /\ runs = 2
    /\ U32Less(cfg.start, waitAtCreate)
    /\ Len(waits) >= 1
    /\ waits[1] = cfg.start

=============================================================================
